---- MODULE Spec2Model ----
(***************************************************************************)
(* Graph edit distance: bipartite (LSAPE) approximation, K optimal LSAPE   *)
(* solutions on the LSAP lifting, IPFP refinement and the multistart       *)
(* driver of graph-lib (MultiGed.h, BipartiteGraphEditDistance.h,          *)
(* IPFPGraphEditDistance.h, MultistartRefinementGraphEditDistance.h).      *)
(*                                                                         *)
(* Arrays are functions on 0..len-1, as in the C++ code.  Edit costs are   *)
(* integers counted in units of 1/Unit, so that a cost of Unit is the real *)
(* number 1.0; the values IPFP computes (halved quadratic terms, line      *)
(* search steps) are exact rationals <<num, den>> over the same unit.      *)
(***************************************************************************)
EXTENDS Integers, Sequences, FiniteSets, TLC

\* ------------------------------------------------------------------ bounds

\* Number of cost units in the real number 1.0 (costs are multiples of 1/Unit).
Unit == 4
\* Largest number of edit paths (K) asked of getKOptimalMappings.
MaxK == 2
\* Largest number of IPFP iterations (IPFPQAP::maxIter) a refiner is configured with.
MaxIterBound == 3

\* -------------------------------------------------------------- arithmetic

Abs(x) == IF x < 0 THEN -x ELSE x

Min2(a, b) == IF a <= b THEN a ELSE b

RECURSIVE GCD(_, _)
GCD(a, b) == IF b = 0 THEN a ELSE GCD(b, a % b)

\* The sum of f over the finite set S.
RECURSIVE SumOver(_, _)
SumOver(S, f) ==
  IF S = {} THEN 0
  ELSE LET x == CHOOSE y \in S : TRUE IN f[x] + SumOver(S \ {x}, f)

\* Exact rationals <<p, q>>, q > 0, in lowest terms.
Rat(p, q) ==
  LET s == IF q < 0 THEN -1 ELSE 1
      g == GCD(Abs(p), Abs(q))
  IN  IF p = 0 THEN <<0, 1>> ELSE <<(s * p) \div g, (s * q) \div g>>

RInt(a) == <<a, 1>>
RZero == <<0, 1>>
ROne == <<1, 1>>
RAdd(x, y) ==
  LET g == GCD(x[2], y[2])
  IN  Rat(x[1] * (y[2] \div g) + y[1] * (x[2] \div g), (x[2] \div g) * y[2])
RSub(x, y) == RAdd(x, <<-y[1], y[2]>>)
RMul(x, y) ==
  LET g == GCD(Abs(x[1]), y[2])
      h == GCD(Abs(y[1]), x[2])
  IN  IF x[1] = 0 \/ y[1] = 0 THEN <<0, 1>>
      ELSE <<(x[1] \div g) * (y[1] \div h), (x[2] \div h) * (y[2] \div g)>>
RDiv(x, y) == RMul(x, IF y[1] < 0 THEN <<-y[2], -y[1]>> ELSE <<y[2], y[1]>>)
RNeg(x) == <<-x[1], x[2]>>
RAbs(x) == <<Abs(x[1]), x[2]>>
\* p/q < r/d for q, d > 0, by the integer parts and then the fractional
\* parts, so that no product is formed.
RECURSIVE FracLt(_, _, _, _)
FracLt(p, q, r, d) ==
  IF p \div q # r \div d THEN p \div q < r \div d
  ELSE IF r % d = 0 THEN FALSE
  ELSE IF p % q = 0 THEN TRUE
  ELSE FracLt(d, r % d, q, p % q)

RLt(x, y) == FracLt(x[1], x[2], y[1], y[2])
RLe(x, y) == ~FracLt(y[1], y[2], x[1], x[2])

RECURSIVE RSumOver(_, _)
RSumOver(S, f) ==
  IF S = {} THEN RZero
  ELSE LET x == CHOOSE y \in S : TRUE IN RAdd(f[x], RSumOver(S \ {x}, f))

\* The least value of the rational-valued f over the non-empty finite set S.
RMinOver(S, f) == CHOOSE c \in {f[x] : x \in S} : \A y \in S : RLe(c, f[y])

\* utils.h: column-major linear index of cell (i, j) in a matrix of n rows.
sub2ind(i, j, n) == j * n + i


\* ------------------------------------------------------------------ graphs

\* GEdge* NULL: the value getEdge returns when there is no edge.
NoEdge == -1

\* A graph of n nodes: node i bears label lab[i]; e maps each ordered pair
\* (i, j) that is linked to the label of its edge.  An undirected graph
\* holds both (i, j) and (j, i), with the same label.
MkGraph(n, directed, lab, arcs) ==
  LET both == IF directed THEN arcs
              ELSE arcs \cup {<<a[2], a[1], a[3]>> : a \in arcs}
  IN  [n |-> n, directed |-> directed, lab |-> lab,
       e |-> [p \in {<<a[1], a[2]>> : a \in both} |->
                (CHOOSE a \in both : a[1] = p[1] /\ a[2] = p[2])[3]]]

Size(g) == g.n
isDirected(g) == g.directed
getEdge(g, i, j) == IF <<i, j>> \in DOMAIN g.e THEN g.e[<<i, j>>] ELSE NoEdge

\* The incident edges of node i (GNode::getIncidentEdges), as a sequence of
\* the nodes they lead to, in increasing order.
RECURSIVE SortedSeq(_)
SortedSeq(S) ==
  IF S = {} THEN <<>>
  ELSE LET x == CHOOSE y \in S : \A z \in S : y <= z
       IN  <<x>> \o SortedSeq(S \ {x})

IncidentEdges(g, i) == SortedSeq({j \in 0..(g.n - 1) : <<i, j>> \in DOMAIN g.e})
Degree(g, i) == Len(IncidentEdges(g, i))

\* ---------------------------------------------------- the edit cost callback

\* EditDistanceCost with constant costs (ConstantEditDistanceCost): a
\* substitution of equal labels costs nothing.
NodeSubstitutionCost(cf, a, b) == IF a = b THEN 0 ELSE cf.cns
NodeDeletionCost(cf, a) == cf.cnd
NodeInsertionCost(cf, b) == cf.cni
EdgeSubstitutionCost(cf, a, b) == IF a = b THEN 0 ELSE cf.ces
EdgeDeletionCost(cf, a) == cf.ced
EdgeInsertionCost(cf, b) == cf.cei

\* ---------------------------------------------------------------- mappings

\* All pairs (fwd, rev) over n and m nodes: fwd[i] in 0..m (m is epsilon),
\* rev[j] in 0..n (n is epsilon), each the inverse of the other off epsilon.
Consistent(fwd, rev, n, m) ==
  /\ \A i \in 0..(n - 1) : fwd[i] < m => rev[fwd[i]] = i
  /\ \A j \in 0..(m - 1) : rev[j] < n => fwd[rev[j]] = j

RevOf(fwd, n, m) ==
  [j \in 0..(m - 1) |->
     IF \E i \in 0..(n - 1) : fwd[i] = j
     THEN CHOOSE i \in 0..(n - 1) : fwd[i] = j ELSE n]

Mappings(n, m) ==
  {<<fwd, RevOf(fwd, n, m)>> :
     fwd \in {f \in [0..(n - 1) -> 0..m] :
                \A i1, i2 \in 0..(n - 1) : (i1 # i2 /\ f[i1] < m) => f[i1] # f[i2]}}

\* ------------------------------------------ the LSAPE solver (its contract)

\* The cost of mapping (fwd, rev) under the (n+1) x (m+1) matrix C: the
\* substitution or deletion cell of every i < n and the insertion cell of
\* every j < m that is mapped to epsilon.
LSAPEObjective(C, fwd, rev, n, m) ==
  RAdd(RSumOver(0..(n - 1), [i \in 0..(n - 1) |-> C[sub2ind(i, fwd[i], n + 1)]]),
       RSumOver({j \in 0..(m - 1) : rev[j] >= n},
                [j \in 0..(m - 1) |-> C[sub2ind(n, j, n + 1)]]))

\* hungarianLSAPE(C, n+1, m+1, rho, varrho, u, v): the primal solutions the
\* solver may return, every mapping of least cost.  Which one it returns
\* among several of the same cost is not part of its contract.
hungarianLSAPE(C, n, m) ==
  LET all == Mappings(n, m)
      obj == [p \in all |-> LSAPEObjective(C, p[1], p[2], n, m)]
      least == RMinOver(all, obj)
  IN  {p \in all : obj[p] = least}

\* The cost of the solutions of hungarianLSAPE.
LSAPEOptimum(C, n, m) ==
  LET all == Mappings(n, m)
  IN  RMinOver(all, [p \in all |-> LSAPEObjective(C, p[1], p[2], n, m)])

\* The dual solutions (u, v) the solver may return with the primal solution
\* (fwd, rev) of the integer matrix C: u[n] = v[m] = 0, u[i] + v[j] <= C[i,j]
\* everywhere, with equality on the cells of the mapping.
LSAPEDuals(C, n, m, fwd, rev) ==
  LET cell(i, j) == C[sub2ind(i, j, n + 1)]
      subst == {j \in 0..(m - 1) : rev[j] < n}
      lo(j) == cell(rev[j], j) - cell(rev[j], m)
      vOf(vs) == [j \in 0..m |-> IF j = m THEN 0
                                 ELSE IF j \in subst THEN vs[j] ELSE cell(n, j)]
      uOf(vs) == [i \in 0..n |-> IF i = n THEN 0
                                 ELSE IF fwd[i] < m THEN cell(i, fwd[i]) - vs[fwd[i]]
                                 ELSE cell(i, m)]
      lows == {lo(j) : j \in subst} \cup {0}
      highs == {cell(n, j) : j \in subst} \cup {0}
      range == (CHOOSE x \in lows : \A y \in lows : x <= y)
               ..(CHOOSE x \in highs : \A y \in highs : x >= y)
  IN  {<<uOf(vs), vOf(vs)>> :
         vs \in {w \in [subst -> range] :
                   \A i \in 0..n, j \in 0..m :
                      uOf(w)[i] + vOf(w)[j] <= cell(i, j)}}

\* --------------------------------------------- BipartiteGraphEditDistance

\* The local (deg(v1)+1) x (deg(v2)+1) matrix of the incident edges of node
\* i of g1 and node j of g2, with its deletion column and insertion row.
LocalEdgeMatrix(cf, g1, g2, i, j) ==
  LET e1 == IncidentEdges(g1, i)
      e2 == IncidentEdges(g2, j)
      n == Len(e1)
      m == Len(e2)
  IN  [k \in 0..((n + 1) * (m + 1) - 1) |->
         LET a == k % (n + 1)
             b == k \div (n + 1)
         IN  IF a < n /\ b < m
               THEN RInt(EdgeSubstitutionCost(cf, getEdge(g1, i, e1[a + 1]),
                                                  getEdge(g2, j, e2[b + 1])))
             ELSE IF a < n THEN RInt(EdgeDeletionCost(cf, getEdge(g1, i, e1[a + 1])))
             ELSE IF b < m THEN RInt(EdgeInsertionCost(cf, getEdge(g2, j, e2[b + 1])))
             ELSE RZero]

\* The sum of the duals of the local LSAPE, which is the cost of its
\* solution, plus the substitution cost of the two nodes.
SubstitutionCost(cf, g1, g2, i, j) ==
  LSAPEOptimum(LocalEdgeMatrix(cf, g1, g2, i, j), Degree(g1, i), Degree(g2, j))[1]
  + NodeSubstitutionCost(cf, g1.lab[i], g2.lab[j])

\* DeletionCost without the cost of the edges of the node.
DeletionCostOfNodeOnly(cf, g1, i) == NodeDeletionCost(cf, g1.lab[i])

DeletionCost(cf, g1, i) ==
  LET e1 == IncidentEdges(g1, i)
  IN  SumOver(1..Len(e1), [a \in 1..Len(e1) |->
                             EdgeDeletionCost(cf, getEdge(g1, i, e1[a]))])
      + NodeDeletionCost(cf, g1.lab[i])

InsertionCost(cf, g2, j) ==
  LET e2 == IncidentEdges(g2, j)
  IN  SumOver(1..Len(e2), [b \in 1..Len(e2) |->
                             EdgeInsertionCost(cf, getEdge(g2, j, e2[b]))])
      + NodeInsertionCost(cf, g2.lab[j])

\* The star-augmented (n+1) x (m+1) cost matrix.
computeCostMatrix(cf, g1, g2) ==
  LET n == Size(g1)
      m == Size(g2)
  IN  [k \in 0..((n + 1) * (m + 1) - 1) |->
         LET i == k % (n + 1)
             j == k \div (n + 1)
         IN  IF i < n /\ j < m THEN SubstitutionCost(cf, g1, g2, i, j)
             ELSE IF i < n THEN DeletionCost(cf, g1, i)
             ELSE IF j < m THEN InsertionCost(cf, g2, j)
             ELSE 0]

ToRat(C) == [k \in DOMAIN C |-> RInt(C[k])]

\* getOptimalMapping: the mappings the solver may write to G1_to_G2 and
\* G2_to_G1 for the star-augmented matrix.
BipartiteGetOptimalMapping(cf, g1, g2) ==
  hungarianLSAPE(ToRat(computeCostMatrix(cf, g1, g2)), Size(g1), Size(g2))

\* ------------------------------------------------------ GraphEditDistance

\* The edges of g, each once: every arc of a directed graph, every pair
\* i < j of an undirected one.
EdgesOnce(g) == {p \in DOMAIN g.e : g.directed \/ p[1] < p[2]}

\* GedFromMapping(g1, g2, G1_to_G2, n, G2_to_G1, m): the edit cost of the
\* mapping, accumulated over node and edge substitutions, deletions and
\* insertions.
GedFromMapping(cf, g1, g2, fwd, rev) ==
  LET n == Size(g1)
      m == Size(g2)
      nodes1 == SumOver(0..(n - 1), [i \in 0..(n - 1) |->
                  IF fwd[i] >= m THEN NodeDeletionCost(cf, g1.lab[i])
                  ELSE NodeSubstitutionCost(cf, g1.lab[i], g2.lab[fwd[i]])])
      nodes2 == SumOver({j \in 0..(m - 1) : rev[j] >= n},
                        [j \in 0..(m - 1) |-> NodeInsertionCost(cf, g2.lab[j])])
      image(p) == IF fwd[p[1]] < m /\ fwd[p[2]] < m
                  THEN getEdge(g2, fwd[p[1]], fwd[p[2]]) ELSE NoEdge
      source(p) == IF rev[p[1]] < n /\ rev[p[2]] < n
                   THEN getEdge(g1, rev[p[1]], rev[p[2]]) ELSE NoEdge
      edges1 == SumOver(EdgesOnce(g1), [p \in EdgesOnce(g1) |->
                  IF image(p) # NoEdge
                  THEN EdgeSubstitutionCost(cf, g1.e[p], image(p))
                  ELSE EdgeDeletionCost(cf, g1.e[p])])
      edges2 == SumOver({p \in EdgesOnce(g2) : source(p) = NoEdge},
                        [p \in EdgesOnce(g2) |-> EdgeInsertionCost(cf, g2.e[p])])
  IN  nodes1 + nodes2 + edges1 + edges2

\* ---------------------------------------------------------------- MultiGed

\* The value -1.0 that computeCostMatrixLSAP writes to the cells of the
\* lifting that stand for no assignment.
Sentinel == -Unit

\* computeCostMatrixLSAP without the zero block of line 106: the cells of
\* the epsilon rows and epsilon columns keep the value -1.0.
computeCostMatrixLSAPNoZeroBlock(C, n, m) ==
  [k \in 0..((n + m) * (n + m) - 1) |->
     LET i == k % (n + m)
         j == k \div (n + m)
     IN  IF i < n /\ j < m THEN C[sub2ind(i, j, n + 1)]
         ELSE IF i < n /\ j = m + i THEN C[sub2ind(i, m, n + 1)]
         ELSE IF i >= n /\ j < m /\ i = n + j THEN C[sub2ind(n, j, n + 1)]
         ELSE Sentinel]

\* computeCostMatrixLSAP(C, n, m): the (n+m) x (n+m) matrix _Clsap.
computeCostMatrixLSAP(C, n, m) ==
  [k \in 0..((n + m) * (n + m) - 1) |->
     LET i == k % (n + m)
         j == k \div (n + m)
     IN  IF i < n /\ j < m THEN C[sub2ind(i, j, n + 1)]
         ELSE IF i < n /\ j = m + i THEN C[sub2ind(i, m, n + 1)]
         ELSE IF i >= n /\ j < m /\ i = n + j THEN C[sub2ind(n, j, n + 1)]
         ELSE IF i >= n /\ j >= m THEN 0
         ELSE Sentinel]

\* The second loop of the construction of rhoperm: rows n..n+m-1, from
\* column j on.  st holds rhoperm, epsAssign, firstEpsNonAssign and whether
\* epsAssign was indexed at n or beyond.
RECURSIVE RhopermEpsRows(_, _, _, _, _)
RhopermEpsRows(st, G2_to_G1, n, m, j) ==
  IF j >= m THEN st
  ELSE IF G2_to_G1[j] = n
    THEN RhopermEpsRows([st EXCEPT !.rhoperm = [@ EXCEPT ![j + n] = j]],
                        G2_to_G1, n, m, j + 1)
  ELSE
    LET free == {e \in st.first..(n - 1) : ~st.epsAssign[e]}
        first == IF free = {} THEN n ELSE CHOOSE e \in free : \A f \in free : e <= f
    IN  RhopermEpsRows(
          [rhoperm |-> [st.rhoperm EXCEPT ![j + n] = first + m],
           epsAssign |-> IF first < n THEN [st.epsAssign EXCEPT ![first] = TRUE]
                         ELSE st.epsAssign,
           first |-> first,
           overrun |-> st.overrun \/ first >= n],
          G2_to_G1, n, m, j + 1)

\* The construction of rhoperm without line 183: epsAssign is left FALSE
\* for the nodes of g1 that are deleted.
RhopermStateUnmarked(G1_to_G2, G2_to_G1, n, m) ==
  RhopermEpsRows(
    [rhoperm |-> [x \in 0..(n + m - 1) |->
                    IF x < n THEN (IF G1_to_G2[x] < m THEN G1_to_G2[x] ELSE x + m)
                    ELSE 0],
     epsAssign |-> [i \in 0..(n - 1) |-> FALSE],
     first |-> 0,
     overrun |-> FALSE],
    G2_to_G1, n, m, 0)

\* The LSAP solution rhoperm of the lifting, from the LSAPE solution.
RhopermState(G1_to_G2, G2_to_G1, n, m) ==
  RhopermEpsRows(
    [rhoperm |-> [x \in 0..(n + m - 1) |->
                    IF x < n THEN (IF G1_to_G2[x] < m THEN G1_to_G2[x] ELSE x + m)
                    ELSE 0],
     epsAssign |-> [i \in 0..(n - 1) |-> ~(G1_to_G2[i] < m)],
     first |-> 0,
     overrun |-> FALSE],
    G2_to_G1, n, m, 0)

Rhoperm(G1_to_G2, G2_to_G1, n, m) == RhopermState(G1_to_G2, G2_to_G1, n, m).rhoperm

\* The duals lu and lv of the lifting.
LiftedU(u, n, m) == [x \in 0..(n + m - 1) |-> IF x < n THEN u[x] ELSE 0]
LiftedV(v, n, m) == [y \in 0..(n + m - 1) |-> IF y < m THEN v[y] ELSE 0]

\* equalityDigraph(_Clsap, n+m, n+m, rhoperm, lu, lv): the cells of the
\* current assignment and the cells, other than the sentinel ones, of
\* reduced cost zero.
equalityDigraph(Clsap, N, rhoperm, lu, lv) ==
  {c \in (0..(N - 1)) \X (0..(N - 1)) :
     \/ rhoperm[c[1]] = c[2]
     \/ /\ Clsap[sub2ind(c[1], c[2], N)] # Sentinel
        /\ Clsap[sub2ind(c[1], c[2], N)] - lu[c[1]] - lv[c[2]] = 0}

\* The perfect matchings of the digraph, rows x..N-1 given the columns used.
RECURSIVE MatchingsFrom(_, _, _, _)
MatchingsFrom(edg, N, x, used) ==
  IF x >= N THEN {<<>>}
  ELSE UNION {{<<y>> \o rest : rest \in MatchingsFrom(edg, N, x + 1, used \cup {y})} :
                y \in {z \in 0..(N - 1) : <<x, z>> \in edg /\ z \notin used}}

PerfectMatchings(edg, N) ==
  {[x \in 0..(N - 1) |-> s[x + 1]] : s \in MatchingsFrom(edg, N, 0, {})}

\* All sequences without repetition of len elements of S.
RECURSIVE Arrangements(_, _)
Arrangements(S, len) ==
  IF len = 0 THEN {<<>>}
  ELSE UNION {{<<x>> \o rest : rest \in Arrangements(S \ {x}, len - 1)} : x \in S}

\* AllPerfectMatchingsEC::enumPerfectMatchings(edg, k) followed by
\* getPerfectMatchings(): the lists the enumeration may give, k distinct
\* perfect matchings of the digraph in some order, all of them when there
\* are fewer than k or when k is -1.
enumPerfectMatchings(edg, N, k) ==
  LET all == PerfectMatchings(edg, N)
      len == IF k < 0 THEN Cardinality(all) ELSE Min2(k, Cardinality(all))
  IN  Arrangements(all, len)

\* getKOptimalMappings(g1, g2, C, k): the lists it may return, for the
\* solution (G1_to_G2, G2_to_G1, u, v) of hungarianLSAPE on C.
getKOptimalMappings(C, n, m, k, G1_to_G2, G2_to_G1, u, v) ==
  LET Clsap == computeCostMatrixLSAP(C, n, m)
      rhoperm == Rhoperm(G1_to_G2, G2_to_G1, n, m)
      edg == equalityDigraph(Clsap, n + m, rhoperm,
                             LiftedU(u, n, m), LiftedV(v, n, m))
  IN  {<<rhoperm>> \o mappings : mappings \in enumPerfectMatchings(edg, n + m, k)}

\* The decoding of the LSAP permutation lsapMapping to local_G1_to_G2 and
\* local_G2_to_G1, as computeOptimalMapping, getBestMappingFromSet and
\* getBetterMappingsFromSet do it: all of g2 to epsilon, then the rows of
\* g1, then the epsilon rows.
RECURSIVE DecodeRows(_, _, _, _, _)
DecodeRows(rev, lsapMapping, n, m, i) ==
  IF i >= n THEN rev
  ELSE DecodeRows(IF lsapMapping[i] >= m THEN rev
                  ELSE [rev EXCEPT ![lsapMapping[i]] = i],
                  lsapMapping, n, m, i + 1)

DecodeFwd(lsapMapping, n, m) ==
  [i \in 0..(n - 1) |-> IF lsapMapping[i] >= m THEN m ELSE lsapMapping[i]]

\* The decoding with the test of its third loop reversed: the nodes of g2
\* whose epsilon row is not assigned to them are sent to epsilon.
DecodeRevReversedTest(lsapMapping, n, m) ==
  LET rows == DecodeRows([j \in 0..(m - 1) |-> n], lsapMapping, n, m, 0)
  IN  [j \in 0..(m - 1) |-> IF lsapMapping[n + j] >= m THEN n ELSE rows[j]]

DecodeRev(lsapMapping, n, m) ==
  LET rows == DecodeRows([j \in 0..(m - 1) |-> n], lsapMapping, n, m, 0)
  IN  [j \in 0..(m - 1) |-> IF lsapMapping[n + j] < m THEN n ELSE rows[j]]

\* --------------------------------------------------- IPFPGraphEditDistance

\* A real number of the code (a threshold) as a number of cost units.
InUnits(x) == RMul(RInt(Unit), x)

\* IPFPQAP::epsilon, the convergence threshold of the refiner.
epsilon == <<1, 1000>>
\* The thresholds of IPFPalgorithm on beta (for t0 and for the branch) and on R.
BetaStep == <<1, 1000000>>
BetaReplace == <<1, 100000>>
RSmall == <<1, 10000>>

\* NodeCostMatrix(g1, g2): the (n+1) x (m+1) matrix C of the node costs.
NodeCostMatrix(cf, g1, g2) ==
  LET n == Size(g1)
      m == Size(g2)
  IN  [c \in 0..((n + 1) * (m + 1) - 1) |->
         LET i == c % (n + 1)
             j == c \div (n + 1)
         IN  IF i < n /\ j < m
               THEN RInt(NodeSubstitutionCost(cf, g1.lab[i], g2.lab[j]))
             ELSE IF i < n THEN RInt(NodeDeletionCost(cf, g1.lab[i]))
             ELSE IF j < m THEN RInt(NodeInsertionCost(cf, g2.lab[j]))
             ELSE RZero]

\* The cost of the pair without the test of line 214: the pairs with i = j
\* or k = l are counted as well.
QuadraticEdgeCostOfAllPairs(cf, g1, g2, i, j, k, l) ==
  LET e1 == IF i < Size(g1) /\ j < Size(g1) THEN getEdge(g1, i, j) ELSE NoEdge
      e2 == IF k < Size(g2) /\ l < Size(g2) THEN getEdge(g2, k, l) ELSE NoEdge
  IN  IF e1 # NoEdge /\ e2 # NoEdge THEN EdgeSubstitutionCost(cf, e1, e2)
      ELSE IF e1 # NoEdge THEN EdgeDeletionCost(cf, e1)
      ELSE IF e2 # NoEdge THEN EdgeInsertionCost(cf, e2)
      ELSE 0

\* The cost the quadratic term counts for the pair of node pairs (i, j) of
\* g1 and (k, l) of g2; an index at n (at m) or beyond is epsilon.
QuadraticEdgeCost(cf, g1, g2, i, j, k, l) ==
  LET n == Size(g1)
      m == Size(g2)
      eps_i == i >= n
      eps_j == j >= n
      eps_k == k >= m
      eps_l == l >= m
      e1 == IF ~eps_i /\ ~eps_j THEN getEdge(g1, i, j) ELSE NoEdge
      e2 == IF ~eps_k /\ ~eps_l THEN getEdge(g2, k, l) ELSE NoEdge
      delta_e1 == e1 # NoEdge
      delta_e2 == e2 # NoEdge
  IN  IF ((i # j) \/ eps_i) /\ ((k # l) \/ eps_k)
      THEN IF delta_e1 /\ delta_e2 THEN EdgeSubstitutionCost(cf, e1, e2)
           ELSE IF delta_e1 /\ ~delta_e2 THEN EdgeDeletionCost(cf, e1)
           ELSE IF ~delta_e1 /\ delta_e2 THEN EdgeInsertionCost(cf, e2)
           ELSE 0
      ELSE 0

\* The factor of line 261-262: a cell is halved unless _directed.
HalvingFactor(directed) == IF ~directed THEN <<1, 2>> ELSE ROne

\* QuadraticTerm(g1, g2, mappings, quadraticTerm): mappings is the set of
\* the ((i, k), value) entries; directed is the member _directed.
QuadraticTermOfList(cf, g1, g2, mappings, directed) ==
  LET n == Size(g1)
      m == Size(g2)
  IN  [c \in 0..((n + 1) * (m + 1) - 1) |->
         LET j == c % (n + 1)
             l == c \div (n + 1)
         IN  RMul(RSumOver(mappings,
                    [it \in mappings |->
                       RMul(RInt(QuadraticEdgeCost(cf, g1, g2, it[1], j, it[2], l)),
                            it[3])]),
                  HalvingFactor(directed))]

\* QuadraticTerm(g1, g2, Matrix, XkD): the entries are the positive cells.
QuadraticTermOfMatrix(cf, g1, g2, Matrix, directed) ==
  LET n == Size(g1)
      m == Size(g2)
  IN  QuadraticTermOfList(cf, g1, g2,
        {<<i, j, Matrix[sub2ind(i, j, n + 1)]>> :
           <<i, j>> \in {c \in (0..n) \X (0..m) :
                           RLt(RZero, Matrix[sub2ind(c[1], c[2], n + 1)])}},
        directed)

\* QuadraticTerm(g1, g2, G1_to_G2, G2_to_G1, XkD): the entries are the
\* cells of the mapping, each of value 1.
QuadraticTermOfMapping(cf, g1, g2, G1_to_G2, G2_to_G1, directed) ==
  LET n == Size(g1)
      m == Size(g2)
  IN  QuadraticTermOfList(cf, g1, g2,
        {<<i, G1_to_G2[i], ROne>> : i \in 0..(n - 1)}
          \cup {<<G2_to_G1[j], j, ROne>> : j \in {y \in 0..(m - 1) : G2_to_G1[y] >= n}},
        directed)

\* linearCost(CostMatrix, G1_to_G2, G2_to_G1, n, m).
linearCostOfMapping(CostMatrix, G1_to_G2, G2_to_G1, n, m) ==
  RAdd(RSumOver(0..(n - 1),
                [i \in 0..(n - 1) |-> CostMatrix[sub2ind(i, G1_to_G2[i], n + 1)]]),
       RSumOver({j \in 0..(m - 1) : G2_to_G1[j] >= n},
                [j \in 0..(m - 1) |-> CostMatrix[sub2ind(G2_to_G1[j], j, n + 1)]]))

\* linearCost(CostMatrix, X, n, m): n rows and m columns.
linearCostOfMatrix(CostMatrix, X, n, m) ==
  RSumOver((0..(n - 1)) \X (0..(m - 1)),
           [c \in (0..(n - 1)) \X (0..(m - 1)) |->
              RMul(CostMatrix[sub2ind(c[1], c[2], n)], X[sub2ind(c[1], c[2], n)])])

\* mappingsToMatrix without its second loop: the nodes of g2 that are
\* inserted get no cell.
mappingsToMatrixRowsOnly(G1_to_G2, G2_to_G1, n, m) ==
  [c \in 0..((n + 1) * (m + 1) - 1) |->
     IF c % (n + 1) < n /\ G1_to_G2[c % (n + 1)] = c \div (n + 1)
     THEN ROne ELSE RZero]

\* mappingsToMatrix(G1_to_G2, G2_to_G1, n, m, Matrix).
mappingsToMatrix(G1_to_G2, G2_to_G1, n, m) ==
  [c \in 0..((n + 1) * (m + 1) - 1) |->
     LET i == c % (n + 1)
         j == c \div (n + 1)
     IN  IF \/ (i < n /\ G1_to_G2[i] = j)
            \/ (j < m /\ G2_to_G1[j] >= n /\ G2_to_G1[j] = i)
         THEN ROne ELSE RZero]

\* LinearSubProblem(): 2 * XkD + C.
LinearSubProblem(XkD, C) ==
  [c \in DOMAIN C |-> RAdd(RMul(RInt(2), XkD[c]), C[c])]

\* The members of the refiner after the initialisation of IPFPalgorithm
\* (lines 317-355), Xk holding the matrix to start from.
IPFPStart(cf, g1, g2, Xk) ==
  LET n == Size(g1)
      m == Size(g2)
      directed == isDirected(g1) /\ isDirected(g2)
      C == NodeCostMatrix(cf, g1, g2)
      XkD == QuadraticTermOfMatrix(cf, g1, g2, Xk, directed)
      Lterm == linearCostOfMatrix(C, Xk, n + 1, m + 1)
  IN  [directed |-> directed, C |-> C, Xk |-> Xk, XkD |-> XkD, bkp1 |-> Xk,
       Lterm |-> Lterm, oldLterm |-> RZero,
       S |-> <<RAdd(linearCostOfMatrix(XkD, Xk, n + 1, m + 1), Lterm)>>,
       R |-> <<>>, k |-> 0, flag_continue |-> TRUE,
       alpha |-> RZero, beta |-> RZero, t0 |-> RZero, branch |-> "none"]

\* The matrix handed to hungarianLSAPE in the iteration that starts in st
\* (lines 359-360).
IPFPGradient(cf, g1, g2, st) ==
  LinearSubProblem(QuadraticTermOfMatrix(cf, g1, g2, st.Xk, st.directed), st.C)

\* getCost with the linear term left out.
getCostWithoutLterm(XkD, Lterm, G1_to_G2, G2_to_G1, n, m) ==
  linearCostOfMapping(XkD, G1_to_G2, G2_to_G1, n, m)

\* getCost(G1_to_G2, G2_to_G1, n, m) (lines 507-513), XkD and Lterm being
\* the members it reads.
getCost(XkD, Lterm, G1_to_G2, G2_to_G1, n, m) ==
  RAdd(linearCostOfMapping(XkD, G1_to_G2, G2_to_G1, n, m), Lterm)

\* The cost the refiner computes for a mapping (lines 380-383): Lterm and
\* XkD are set from the mapping, then getCost is read.
CostOfMapping(cf, g1, g2, G1_to_G2, G2_to_G1) ==
  LET n == Size(g1)
      m == Size(g2)
      directed == isDirected(g1) /\ isDirected(g2)
      Lterm == linearCostOfMapping(NodeCostMatrix(cf, g1, g2), G1_to_G2, G2_to_G1, n, m)
      XkD == QuadraticTermOfMapping(cf, g1, g2, G1_to_G2, G2_to_G1, directed)
  IN  getCost(XkD, Lterm, G1_to_G2, G2_to_G1, n, m)

\* A line search that keeps the objective of the previous iterate.
LineSearchObjectiveKept(Sk, alpha, beta) == Sk

\* The objective stored by the line search (line 430):
\* S[k+1] = S[k] - pow(alpha, 2) / (4 * beta).
LineSearchObjective(Sk, alpha, beta) ==
  RSub(Sk, RDiv(RMul(alpha, alpha), RMul(RInt(4), beta)))

\* The step length t0 (lines 392-394).
StepLength(alpha, beta) ==
  IF RLt(InUnits(BetaStep), beta)
  THEN RDiv(RNeg(alpha), RMul(RInt(2), beta)) ELSE RZero

\* The test of line 416 with the threshold itself on the side of bkp1.
ReplaceBranchAtThreshold(beta, t0) == RLe(beta, InUnits(BetaReplace)) \/ RLe(ROne, t0)

\* The test of line 416: Xk is replaced by bkp1.
ReplaceBranch(beta, t0) == RLt(beta, InUnits(BetaReplace)) \/ RLe(ROne, t0)

\* The end of an iteration (lines 392-394 and 416-432): t0, then Xk, Lterm
\* and S[k+1] by the branch taken.  S[k+1] holds Snew and Lterm the linear
\* cost of the mapping of bkp1 when the branch is entered.
BranchUpdate(alpha, beta, Sk, Snew, Xk, bkp1, C, Lterm, n, m) ==
  LET t0 == StepLength(alpha, beta)
      replace == ReplaceBranch(beta, t0)
      X == IF replace THEN bkp1
           ELSE [c \in DOMAIN Xk |-> RAdd(Xk[c], RMul(t0, RSub(bkp1[c], Xk[c])))]
  IN  [Xk |-> X,
       Lterm |-> IF replace THEN Lterm ELSE linearCostOfMatrix(C, X, n + 1, m + 1),
       Snext |-> IF replace THEN Snew ELSE LineSearchObjective(Sk, alpha, beta),
       t0 |-> t0,
       branch |-> IF replace THEN "replace" ELSE "line_search"]

\* One iteration of the loop of IPFPalgorithm (lines 362-441), for the
\* solution (G1_to_G2, G2_to_G1) of hungarianLSAPE on linearSubProblem.
IPFPIteration(cf, g1, g2, st, linearSubProblem, G1_to_G2, G2_to_G1) ==
  LET n == Size(g1)
      m == Size(g2)
      bkp1 == mappingsToMatrix(G1_to_G2, G2_to_G1, n, m)
      Rk == linearCostOfMapping(linearSubProblem, G1_to_G2, G2_to_G1, n, m)
      oldLterm == st.Lterm
      Lterm == linearCostOfMapping(st.C, G1_to_G2, G2_to_G1, n, m)
      XkD == QuadraticTermOfMapping(cf, g1, g2, G1_to_G2, G2_to_G1, st.directed)
      Snew == getCost(XkD, Lterm, G1_to_G2, G2_to_G1, n, m)
      Sk == st.S[st.k + 1]
      alpha == RAdd(RSub(Rk, RMul(RInt(2), Sk)), oldLterm)
      beta == RSub(RSub(RAdd(Snew, Sk), Rk), oldLterm)
      flag == IF RLt(Rk, InUnits(RSmall))
              THEN RLt(InUnits(epsilon), RAbs(alpha))
              ELSE RLt(epsilon, RAbs(RDiv(alpha, Rk)))
      upd == BranchUpdate(alpha, beta, Sk, Snew, st.Xk, bkp1, st.C, Lterm, n, m)
  IN  [directed |-> st.directed, C |-> st.C, Xk |-> upd.Xk, XkD |-> XkD, bkp1 |-> bkp1,
       Lterm |-> upd.Lterm, oldLterm |-> oldLterm,
       S |-> Append(st.S, upd.Snext),
       R |-> Append(st.R, Rk), k |-> st.k + 1, flag_continue |-> flag,
       alpha |-> alpha, beta |-> beta, t0 |-> upd.t0, branch |-> upd.branch]

\* The states one more iteration may lead to from st, over the solutions
\* the solver may return.
IPFPIterations(cf, g1, g2, st) ==
  LET linearSubProblem == IPFPGradient(cf, g1, g2, st)
  IN  {IPFPIteration(cf, g1, g2, st, linearSubProblem, b[1], b[2]) :
         b \in hungarianLSAPE(linearSubProblem, Size(g1), Size(g2))}

\* A loop guard that leaves the iteration count out.
LoopGuardWithoutBound(st, maxIter) == st.flag_continue

\* The guard of the loop of IPFPalgorithm (line 358).
LoopGuard(st, maxIter) == st.k < maxIter /\ st.flag_continue

\* The loop of IPFPalgorithm (line 358): the states it may end in, from the
\* states of running.
RECURSIVE IPFPLoop(_, _, _, _, _, _)
IPFPLoop(cf, g1, g2, running, ended, maxIter) ==
  LET stop == {st \in running : ~LoopGuard(st, maxIter)}
  IN  IF running = {} THEN ended
      ELSE IPFPLoop(cf, g1, g2,
                    UNION {IPFPIterations(cf, g1, g2, st) : st \in running \ stop},
                    ended \cup stop, maxIter)

\* IPFPalgorithm(g1, g2), Xk being set: the states it may end in.
IPFPalgorithm(cf, g1, g2, Xk, maxIter) ==
  IPFPLoop(cf, g1, g2, {IPFPStart(cf, g1, g2, Xk)}, {}, maxIter)

\* The projection of Xk itself, line 303 left out.
OnesMinusLeftOut(Xk) == Xk

\* The matrix 1 - Xk that getBetterMapping projects to a mapping.
OnesMinus(Xk) == [c \in DOMAIN Xk |-> RSub(ROne, Xk[c])]

\* getBetterMapping(g1, g2, G1_to_G2, G2_to_G1): the mappings it may leave
\* in G1_to_G2 and G2_to_G1.
getBetterMapping(cf, g1, g2, G1_to_G2, G2_to_G1, maxIter) ==
  LET n == Size(g1)
      m == Size(g2)
      Xk == mappingsToMatrix(G1_to_G2, G2_to_G1, n, m)
  IN  UNION {hungarianLSAPE(OnesMinus(X), n, m) :
               X \in {st.Xk : st \in IPFPalgorithm(cf, g1, g2, Xk, maxIter)}}

\* mappingCost(g1, g2, G1_to_G2, G2_to_G1).
mappingCost(cf, g1, g2, G1_to_G2, G2_to_G1) ==
  GedFromMapping(cf, g1, g2, G1_to_G2, G2_to_G1)

\* ------------------------------------------------------------ the inputs

\* The cost callbacks: every cost in units of 1/Unit.
UnitCosts == [cns |-> 4, cnd |-> 4, cni |-> 4, ces |-> 4, ced |-> 4, cei |-> 4]
HalfCosts == [cns |-> 2, cnd |-> 2, cni |-> 2, ces |-> 2, ced |-> 2, cei |-> 2]
CheapEdges == [cns |-> 4, cnd |-> 4, cni |-> 4, ces |-> 4, ced |-> 1, cei |-> 1]

NodeLabels(l) == [i \in 0..(Len(l) - 1) |-> l[i + 1]]

\* The graphs of the pairs below.
ArcToLabelled == MkGraph(3, TRUE, NodeLabels(<<0, 0, 1>>), {<<2, 1, 0>>})
Arc == MkGraph(2, TRUE, NodeLabels(<<0, 0>>), {<<0, 1, 0>>})
DirectedPath == MkGraph(3, TRUE, NodeLabels(<<0, 0, 0>>), {<<0, 1, 0>>, <<1, 2, 0>>})
Edge01 == MkGraph(2, FALSE, NodeLabels(<<0, 1>>), {<<0, 1, 0>>})
Edge00 == MkGraph(2, FALSE, NodeLabels(<<0, 0>>), {<<0, 1, 1>>})
Single == MkGraph(1, FALSE, NodeLabels(<<1>>), {})
Empty == MkGraph(0, FALSE, NodeLabels(<<>>), {})

\* The runs of the pipeline: the graph pair, the cost callback, the number
\* k of seeds asked for and maxIter of the refiner.
Instances ==
  {[g1 |-> ArcToLabelled, g2 |-> Arc, cf |-> HalfCosts, k |-> 2, maxIter |-> 2],
   [g1 |-> ArcToLabelled, g2 |-> Arc, cf |-> UnitCosts, k |-> 2, maxIter |-> 2],
   [g1 |-> DirectedPath, g2 |-> DirectedPath, cf |-> CheapEdges, k |-> 1, maxIter |-> 2],
   [g1 |-> Edge01, g2 |-> Edge00, cf |-> UnitCosts, k |-> 1, maxIter |-> MaxIterBound],
   [g1 |-> Edge01, g2 |-> Edge00, cf |-> UnitCosts, k |-> 2, maxIter |-> MaxIterBound]}
  \cup {[g1 |-> Single, g2 |-> Edge00, cf |-> CheapEdges, k |-> k, maxIter |-> MaxIterBound] :
          k \in 1..MaxK}

\* The entry points: MultiGed::computeOptimalMapping, and getBestMapping of
\* the multistart driver in its sequential and in its OpenMP build.
Entries == {"computeOptimalMapping", "sequential", "openmp"}

\* (double) to (int): truncation toward zero of a cost held in units.
IntOfDouble(x) == IF x >= 0 THEN x \div Unit ELSE -((-x) \div Unit)

\* ----------------------------------------------------------------- state

VARIABLES
  input,       \* g1, g2, the cost callback cf, k, maxIter of the refiner, the entry point
  pc,          \* the position of the caller
  bipartite,   \* G1_to_G2 and G2_to_G1 of BipartiteGraphEditDistance::getOptimalMapping
  mappings,    \* the list getKOptimalMappings returned
  it,          \* the position of the iterator of the sequential loops
  refined,     \* per seed, local_G1_to_G2 and local_G2_to_G1 after its loop body
  ncost,       \* the one variable ncost (nged) of the function
  arrayCosts,  \* the int array of the OpenMP build
  tpc,         \* per seed, the position of its loop body in the OpenMP build
  cost,        \* cost (_ged), -1.0 before the first seed
  result,      \* G1_to_G2 and G2_to_G1 of the caller
  ipfp,        \* the members of the IPFP refiner during a call of getBetterMapping
  heap,        \* the buffers allocated with new[], the pointers the refiners hold to them
  arg,         \* the arguments of a function that is read on its own
  val          \* its value

vars == <<input, pc, bipartite, mappings, it, refined, ncost, arrayCosts, tpc, cost, result,
         ipfp, heap, arg, val>>

N1 == Size(input.g1)
N2 == Size(input.g2)

Init ==
  /\ input \in {[g1 |-> x.g1, g2 |-> x.g2, cf |-> x.cf, k |-> x.k,
                  maxIter |-> x.maxIter, entry |-> e] : x \in Instances, e \in Entries}
  /\ pc = "start"
  /\ bipartite = <<>>
  /\ mappings = <<>>
  /\ it = 0
  /\ refined = <<>>
  /\ ncost = 0
  /\ arrayCosts = <<>>
  /\ tpc = <<>>
  /\ cost = -Unit
  /\ result = <<>>
  /\ ipfp = <<>>
  /\ heap = <<>>
  /\ arg = <<>>
  /\ val = <<>>

\* ---------------------------------------------------------------- actions

\* BipartiteGraphEditDistance::getOptimalMapping(g1, g2, G1_to_G2, G2_to_G1).
getOptimalMapping ==
  /\ pc = "start"
  /\ bipartite' \in BipartiteGetOptimalMapping(input.cf, input.g1, input.g2)
  /\ pc' = "bipartite"
  /\ UNCHANGED <<arg, val, heap, input, mappings, it, refined, ncost, arrayCosts, tpc, cost, result, ipfp>>

\* The lists getKOptimalMappings(g1, g2, C, k) may return for the matrix of
\* computeCostMatrix: the solver gives, for this matrix, the solution it
\* gave to getOptimalMapping, with any of its duals.
SeedLists ==
  LET C == computeCostMatrix(input.cf, input.g1, input.g2)
  IN  UNION {getKOptimalMappings(C, N1, N2, input.k, bipartite[1], bipartite[2],
                                 d[1], d[2]) :
               d \in LSAPEDuals(C, N1, N2, bipartite[1], bipartite[2])}

\* MultiGed::getKOptimalMappings, called by computeOptimalMapping (line 250)
\* or by the generator of the multistart driver.
GetKOptimalMappings ==
  /\ pc = "bipartite"
  /\ mappings' \in SeedLists
  /\ refined' = [t \in 1..Len(mappings') |-> <<>>]
  /\ arrayCosts' = [t \in 1..Len(mappings') |-> 0]
  /\ tpc' = [t \in 1..Len(mappings') |-> "todo"]
  /\ pc' = input.entry
  /\ UNCHANGED <<arg, val, heap, input, bipartite, it, ncost, cost, result, ipfp>>

\* One iteration of the loop of MultiGed::computeOptimalMapping
\* (lines 266-297).
ComputeOptimalMappingBody ==
  /\ pc = "computeOptimalMapping"
  /\ it < Len(mappings)
  /\ LET lsapMapping == mappings[it + 1]
         local_G1_to_G2 == DecodeFwd(lsapMapping, N1, N2)
         local_G2_to_G1 == DecodeRev(lsapMapping, N1, N2)
         nged == GedFromMapping(input.cf, input.g1, input.g2,
                                local_G1_to_G2, local_G2_to_G1)
     IN  /\ ncost' = nged
         /\ refined' = [refined EXCEPT ![it + 1] = <<local_G1_to_G2, local_G2_to_G1>>]
         /\ IF cost > nged \/ cost = -Unit
              THEN cost' = nged /\ result' = <<local_G1_to_G2, local_G2_to_G1>>
              ELSE UNCHANGED <<cost, result>>
  /\ it' = it + 1
  /\ pc' = IF it' = Len(mappings) THEN "done" ELSE pc
  /\ UNCHANGED <<arg, val, heap, input, bipartite, mappings, arrayCosts, tpc, ipfp>>

\* One iteration of the loop of getBestMappingFromSet in the sequential
\* build (lines 209-266).
SequentialBody ==
  /\ pc = "sequential"
  /\ it < Len(mappings)
  /\ LET lsapMapping == mappings[it + 1]
     IN  \E local \in getBetterMapping(input.cf, input.g1, input.g2,
                                       DecodeFwd(lsapMapping, N1, N2),
                                       DecodeRev(lsapMapping, N1, N2), input.maxIter) :
           /\ ncost' = mappingCost(input.cf, input.g1, input.g2, local[1], local[2])
           /\ refined' = [refined EXCEPT ![it + 1] = local]
           /\ IF cost > ncost' \/ cost = -Unit
                THEN cost' = ncost' /\ result' = local
                ELSE UNCHANGED <<cost, result>>
  /\ it' = it + 1
  /\ pc' = IF it' = Len(mappings) THEN "done" ELSE pc
  /\ UNCHANGED <<arg, val, heap, input, bipartite, mappings, arrayCosts, tpc, ipfp>>

\* The loop body of seed tid in the OpenMP build, up to the assignment of
\* ncost, which is declared outside the parallel loop and is shared by its
\* threads (lines 179, 197-243).
ParallelRefine(tid) ==
  /\ pc = "openmp"
  /\ tpc[tid] = "todo"
  /\ LET lsapMapping == mappings[tid]
     IN  \E local \in getBetterMapping(input.cf, input.g1, input.g2,
                                       DecodeFwd(lsapMapping, N1, N2),
                                       DecodeRev(lsapMapping, N1, N2), input.maxIter) :
           /\ refined' = [refined EXCEPT ![tid] = local]
           /\ ncost' = mappingCost(input.cf, input.g1, input.g2, local[1], local[2])
  /\ tpc' = [tpc EXCEPT ![tid] = "refined"]
  /\ UNCHANGED <<arg, val, heap, input, pc, bipartite, mappings, it, arrayCosts, cost, result, ipfp>>

\* arrayCosts[tid] = ncost (line 249): the shared ncost, converted to int.
ParallelStore(tid) ==
  /\ pc = "openmp"
  /\ tpc[tid] = "refined"
  /\ arrayCosts' = [arrayCosts EXCEPT ![tid] = IntOfDouble(ncost)]
  /\ tpc' = [tpc EXCEPT ![tid] = "stored"]
  /\ UNCHANGED <<arg, val, heap, input, pc, bipartite, mappings, it, refined, ncost, cost, result, ipfp>>

\* The reduction loop (lines 277-282) from seed i on: cost and i_optim.
RECURSIVE Reduction(_, _, _)
Reduction(c, i_optim, i) ==
  IF i > Len(mappings) THEN <<c, i_optim>>
  ELSE IF c > arrayCosts[i] * Unit \/ c = -Unit
    THEN Reduction(arrayCosts[i] * Unit, i, i + 1)
  ELSE Reduction(c, i_optim, i + 1)

\* The reduction of the OpenMP build, after the parallel loop
\* (lines 276-284).
ParallelReduce ==
  /\ pc = "openmp"
  /\ \A t \in 1..Len(mappings) : tpc[t] = "stored"
  /\ LET r == Reduction(cost, 0, 1)
     IN  /\ cost' = r[1]
         /\ result' = refined[r[2]]
  /\ pc' = "done"
  /\ UNCHANGED <<arg, val, heap, input, bipartite, mappings, it, refined, ncost, arrayCosts, tpc, ipfp>>

Next ==
  \/ getOptimalMapping
  \/ GetKOptimalMappings
  \/ ComputeOptimalMappingBody
  \/ SequentialBody
  \/ \E tid \in 1..Len(mappings) : ParallelRefine(tid)
  \/ \E tid \in 1..Len(mappings) : ParallelStore(tid)
  \/ ParallelReduce

Spec == Init /\ [][Next]_vars

\* ------------------------------------------- one call of getBetterMapping

\* The calls of IPFPGraphEditDistance::getBetterMapping that are followed
\* step by step: the graph pair, the cost callback and maxIter.
RefinerInstances ==
  {[g1 |-> p[1], g2 |-> p[2], cf |-> cf, k |-> 1, maxIter |-> MaxIterBound,
    entry |-> "getBetterMapping"] :
     p \in {<<Arc, Edge00>>, <<Edge01, Arc>>, <<Edge01, Edge00>>, <<Arc, Arc>>,
             <<Empty, Edge00>>, <<Edge01, Empty>>},
     cf \in {UnitCosts, CheapEdges}}

\* The caller holds any mapping of g1 to g2 in G1_to_G2 and G2_to_G1.
InitIPFP ==
  /\ input \in RefinerInstances
  /\ pc = "getBetterMapping"
  /\ bipartite \in Mappings(N1, N2)
  /\ mappings = <<>>
  /\ it = 0
  /\ refined = <<>>
  /\ ncost = 0
  /\ arrayCosts = <<>>
  /\ tpc = <<>>
  /\ cost = -Unit
  /\ result = <<>>
  /\ ipfp = <<>>
  /\ heap = <<>>
  /\ arg = <<>>
  /\ val = <<>>

\* getBetterMapping up to the loop of IPFPalgorithm (lines 290-355): Xk is
\* the matrix of the mapping and the members are initialised.
RefinerStart ==
  /\ pc = "getBetterMapping"
  /\ ipfp' = IPFPStart(input.cf, input.g1, input.g2,
                       mappingsToMatrix(bipartite[1], bipartite[2], N1, N2))
  /\ pc' = "IPFPalgorithm"
  /\ UNCHANGED <<arg, val, heap, input, bipartite, mappings, it, refined, ncost, arrayCosts, tpc,
                 cost, result>>

\* One iteration of the loop of IPFPalgorithm (lines 358-442).
RefinerIterate ==
  /\ pc = "IPFPalgorithm"
  /\ LoopGuard(ipfp, input.maxIter)
  /\ ipfp' \in IPFPIterations(input.cf, input.g1, input.g2, ipfp)
  /\ UNCHANGED <<arg, val, heap, input, pc, bipartite, mappings, it, refined, ncost, arrayCosts, tpc,
                 cost, result>>

\* The loop has ended: getBetterMapping projects 1 - Xk to a mapping
\* (lines 303-306).
RefinerProject ==
  /\ pc = "IPFPalgorithm"
  /\ ~LoopGuard(ipfp, input.maxIter)
  /\ result' \in hungarianLSAPE(OnesMinus(ipfp.Xk), N1, N2)
  /\ pc' = "done"
  /\ UNCHANGED <<arg, val, heap, input, bipartite, mappings, it, refined, ncost, arrayCosts, tpc,
                 cost, ipfp>>

NextIPFP ==
  \/ RefinerStart
  \/ RefinerIterate
  \/ RefinerProject

SpecIPFP == InitIPFP /\ [][NextIPFP]_vars

\* The call runs on: the thread that executes getBetterMapping takes its
\* next step whenever it has one.  This is weak fairness of NextIPFP written
\* out, []<>(~ENABLED <<NextIPFP>>_vars) \/ []<><<NextIPFP>>_vars: a step of
\* NextIPFP is enabled exactly while the call has not returned.
Progress == ([]<>(pc = "done")) \/ ([]<><<NextIPFP>>_vars)
FairSpecIPFP == SpecIPFP /\ Progress

\* ---------------------------------------------- the cost of a mapping

\* Graph pairs of one kind, both directed or both undirected.
Triangle == MkGraph(3, FALSE, NodeLabels(<<0, 1, 0>>),
                    {<<0, 1, 0>>, <<1, 2, 1>>, <<0, 2, 0>>})
Path == MkGraph(3, FALSE, NodeLabels(<<0, 0, 1>>), {<<0, 1, 0>>, <<1, 2, 0>>})
Cycle == MkGraph(3, TRUE, NodeLabels(<<0, 1, 0>>),
                 {<<0, 1, 0>>, <<1, 2, 1>>, <<2, 0, 0>>, <<1, 0, 1>>})

CostInstances ==
  {[g1 |-> p[1], g2 |-> p[2], cf |-> cf, k |-> 1, maxIter |-> MaxIterBound,
    entry |-> "getCost"] :
     p \in {<<Arc, Arc>>, <<ArcToLabelled, Arc>>, <<DirectedPath, Cycle>>,
             <<Cycle, Arc>>, <<Edge01, Edge00>>, <<Triangle, Path>>,
             <<Path, Edge01>>, <<Single, Triangle>>, <<Empty, Edge00>>},
     cf \in {UnitCosts, CheapEdges}}

\* getCost and mappingCost are read for one consistent mapping, held in
\* bipartite; cost receives the two values.
InitCost ==
  /\ input \in CostInstances
  /\ pc = "getCost"
  /\ bipartite \in Mappings(N1, N2)
  /\ mappings = <<>>
  /\ it = 0
  /\ refined = <<>>
  /\ ncost = 0
  /\ arrayCosts = <<>>
  /\ tpc = <<>>
  /\ cost = -Unit
  /\ result = <<>>
  /\ ipfp = <<>>
  /\ heap = <<>>
  /\ arg = <<>>
  /\ val = <<>>

ReadCosts ==
  /\ pc = "getCost"
  /\ cost' = <<CostOfMapping(input.cf, input.g1, input.g2, bipartite[1], bipartite[2]),
               mappingCost(input.cf, input.g1, input.g2, bipartite[1], bipartite[2])>>
  /\ pc' = "done"
  /\ UNCHANGED <<arg, val, heap, input, bipartite, mappings, it, refined, ncost, arrayCosts, tpc,
                 result, ipfp>>

SpecCost == InitCost /\ [][ReadCosts]_vars

\* ------------------------------------------- the buffers of the refiner

\* The null pointer.
NoBuffer == 0

\* The pointer members of the refiner that the destructor deletes.
Members == {"C", "linearSubProblem", "XkD", "Xk", "Xkp1tD", "bkp1"}

\* The members after the constructor (lines 76-83).
Constructed == [f \in Members |-> NoBuffer]

\* new[]: count buffers more, allocated by thread owner; the buffer number
\* Len(blocks) + i is the i-th of them.
New(blocks, owner, count) ==
  blocks \o [i \in 1..count |-> [owner |-> owner, frees |-> 0]]

\* delete [] of the pointers of ps, one after the other; delete [] of the
\* null pointer does nothing.
RECURSIVE Delete(_, _)
Delete(blocks, ps) ==
  IF ps = <<>> THEN blocks
  ELSE LET p == Head(ps)
       IN  Delete(IF p = NoBuffer THEN blocks
                  ELSE [blocks EXCEPT ![p].frees = @ + 1], Tail(ps))

\* QuadraticTerm(g1, g2, Matrix, XkD) (lines 150-153): the member XkD is
\* allocated when it is null; b buffers have been allocated before.
QuadraticTermBuffer(o, b) ==
  IF o.XkD = NoBuffer THEN [o EXCEPT !.XkD = b + 1] ELSE o

\* The number of buffers QuadraticTerm allocates.
QuadraticTermCount(o) == IF o.XkD = NoBuffer THEN 1 ELSE 0

\* The members after the allocations of IPFPalgorithm (lines 325-350): C in
\* NodeCostMatrix (119), bkp1 (328), XkD in QuadraticTerm (332),
\* linearSubProblem (340) and Xkp1tD (344).
AlgorithmBuffers(o, b) ==
  LET o1 == [o EXCEPT !.C = b + 1, !.bkp1 = b + 2]
      o2 == QuadraticTermBuffer(o1, b + 2)
      d == QuadraticTermCount(o1)
  IN  [o2 EXCEPT !.linearSubProblem = b + 3 + d, !.Xkp1tD = b + 4 + d]

\* The end of IPFPalgorithm with the member XkD left as it is.
CleanupKeepsXkD(o) ==
  [o EXCEPT !.Xkp1tD = NoBuffer, !.linearSubProblem = NoBuffer,
            !.C = NoBuffer, !.bkp1 = NoBuffer]

\* The members after the end of IPFPalgorithm (lines 444-448).
Cleanup(o) ==
  [o EXCEPT !.Xkp1tD = NoBuffer, !.linearSubProblem = NoBuffer, !.XkD = NoBuffer,
            !.C = NoBuffer, !.bkp1 = NoBuffer]

\* The pointers the destructor deletes (lines 104-111).
Destructor(o) == <<o.C, o.linearSubProblem, o.XkD, o.Xk, o.Xkp1tD, o.bkp1>>

\* The runs of the driver over its seeds: k seeds, the sequential build or
\* the OpenMP build, maxIter of the refiner.
BufferInstances ==
  {[g1 |-> Edge01, g2 |-> Edge00, cf |-> UnitCosts, k |-> k, maxIter |-> mi,
    entry |-> e] : k \in 1..MaxK, mi \in 1..MaxIterBound, e \in {"sequential", "openmp"}}

\* The loop bodies that run: one per seed in the OpenMP build, one after
\* the other on the refiner algorithm in the sequential build.
Bodies == IF input.entry = "openmp" THEN 1..input.k ELSE {1}

\* The refiner a loop body calls: its clone in the OpenMP build (line 237),
\* algorithm itself, refiner 0, in the sequential build (line 239).
local_method(t) == IF input.entry = "openmp" THEN t ELSE 0

InitBuffers ==
  /\ input \in BufferInstances
  /\ pc = "getBestMappingFromSet"
  /\ bipartite = <<>>
  /\ mappings = <<>>
  /\ it = 0
  /\ refined = <<>>
  /\ ncost = 0
  /\ arrayCosts = <<>>
  /\ tpc = <<>>
  /\ cost = -Unit
  /\ result = <<>>
  /\ ipfp = <<>>
  /\ heap = [blocks |-> <<>>,
             obj |-> [x \in {0} |-> Constructed],
             th |-> [t \in Bodies |->
                       [pc |-> IF input.entry = "openmp" THEN "clone"
                               ELSE "getBetterMapping",
                        k |-> 0, locals |-> <<>>, seed |-> 1]]]
  /\ arg = <<>>
  /\ val = <<>>

BufferFrame == UNCHANGED <<arg, val, input, pc, bipartite, mappings, it, refined, ncost, arrayCosts,
                           tpc, cost, result, ipfp>>

\* local_method = algorithm->clone() (line 237): the copy constructor copies
\* the pointers.
CloneMethod(t) ==
  /\ pc = "getBestMappingFromSet"
  /\ heap.th[t].pc = "clone"
  /\ heap' = [heap EXCEPT !.obj = [x \in DOMAIN heap.obj \cup {t} |->
                                     IF x = t THEN heap.obj[0] ELSE heap.obj[x]],
                          !.th[t].pc = "getBetterMapping"]
  /\ BufferFrame

\* getBetterMapping up to the call of IPFPalgorithm (lines 290-295).
EnterGetBetterMapping(t) ==
  /\ pc = "getBestMappingFromSet"
  /\ heap.th[t].pc = "getBetterMapping"
  /\ heap' = [heap EXCEPT !.blocks = New(@, t, 1),
                          !.obj[local_method(t)].Xk = Len(heap.blocks) + 1,
                          !.th[t].pc = "IPFPalgorithm"]
  /\ BufferFrame

\* IPFPalgorithm up to its loop (lines 317-355).
EnterIPFPalgorithm(t) ==
  LET o == heap.obj[local_method(t)]
      b == Len(heap.blocks)
      c == 4 + QuadraticTermCount(o)
  IN  /\ pc = "getBestMappingFromSet"
      /\ heap.th[t].pc = "IPFPalgorithm"
      /\ heap' = [heap EXCEPT !.blocks = New(@, t, c + 4),
                              !.obj[local_method(t)] = AlgorithmBuffers(o, b),
                              !.th[t] = [@ EXCEPT !.pc = "loop", !.k = 0,
                                           !.locals = <<b + c + 1, b + c + 2,
                                                        b + c + 3, b + c + 4>>]]
      /\ BufferFrame

\* One iteration of the loop (lines 358-441); flag_continue is TRUE before
\* the first one and is whatever the convergence test says afterwards.
IterateIPFPalgorithm(t) ==
  LET o == heap.obj[local_method(t)]
  IN  /\ pc = "getBestMappingFromSet"
      /\ heap.th[t].pc = "loop"
      /\ heap.th[t].k < input.maxIter
      /\ heap' = [heap EXCEPT !.blocks = New(@, t, QuadraticTermCount(o)),
                              !.obj[local_method(t)] =
                                 QuadraticTermBuffer(o, Len(heap.blocks)),
                              !.th[t].k = @ + 1]
      /\ BufferFrame

\* The end of IPFPalgorithm (lines 444-452).
LeaveIPFPalgorithm(t) ==
  LET o == heap.obj[local_method(t)]
  IN  /\ pc = "getBestMappingFromSet"
      /\ heap.th[t].pc = "loop"
      /\ heap.th[t].k >= 1
      /\ heap' = [heap EXCEPT !.blocks =
                                 Delete(@, <<o.Xkp1tD, o.linearSubProblem, o.XkD,
                                             o.C, o.bkp1>> \o heap.th[t].locals),
                              !.obj[local_method(t)] = Cleanup(o),
                              !.th[t] = [@ EXCEPT !.pc = "project", !.locals = <<>>]]
      /\ BufferFrame

\* The end of getBetterMapping (lines 303-309): u and v are allocated and
\* deleted, Xk is deleted and set to 0.
LeaveGetBetterMapping(t) ==
  LET o == heap.obj[local_method(t)]
      b == Len(heap.blocks)
  IN  /\ pc = "getBestMappingFromSet"
      /\ heap.th[t].pc = "project"
      /\ heap' = [heap EXCEPT !.blocks = Delete(New(@, t, 2), <<o.Xk, b + 1, b + 2>>),
                              !.obj[local_method(t)].Xk = NoBuffer,
                              !.th[t].pc = "returned"]
      /\ BufferFrame

\* The sequential loop goes on to its next seed (line 209).
NextSeed(t) ==
  /\ pc = "getBestMappingFromSet"
  /\ input.entry = "sequential"
  /\ heap.th[t].pc = "returned"
  /\ heap.th[t].seed < input.k
  /\ heap' = [heap EXCEPT !.th[t] = [@ EXCEPT !.pc = "getBetterMapping",
                                                !.seed = @ + 1]]
  /\ BufferFrame

\* delete local_method (line 253): the destructor of the clone.
DeleteClone(t) ==
  /\ pc = "getBestMappingFromSet"
  /\ input.entry = "openmp"
  /\ heap.th[t].pc = "returned"
  /\ heap' = [heap EXCEPT !.blocks = Delete(@, Destructor(heap.obj[t])),
                          !.th[t].pc = "deleted"]
  /\ BufferFrame

\* Every loop body has run.
BodiesDone ==
  \A t \in Bodies :
     IF input.entry = "openmp" THEN heap.th[t].pc = "deleted"
     ELSE heap.th[t].pc = "returned" /\ heap.th[t].seed = input.k

\* The owner of algorithm destroys it after the driver has returned.
DestroyAlgorithm ==
  /\ pc = "getBestMappingFromSet"
  /\ BodiesDone
  /\ heap' = [heap EXCEPT !.blocks = Delete(@, Destructor(heap.obj[0]))]
  /\ pc' = "destroyed"
  /\ UNCHANGED <<arg, val, input, bipartite, mappings, it, refined, ncost, arrayCosts, tpc, cost,
                 result, ipfp>>

NextBuffers ==
  \/ \E t \in Bodies : CloneMethod(t)
  \/ \E t \in Bodies : EnterGetBetterMapping(t)
  \/ \E t \in Bodies : EnterIPFPalgorithm(t)
  \/ \E t \in Bodies : IterateIPFPalgorithm(t)
  \/ \E t \in Bodies : LeaveIPFPalgorithm(t)
  \/ \E t \in Bodies : LeaveGetBetterMapping(t)
  \/ \E t \in Bodies : NextSeed(t)
  \/ \E t \in Bodies : DeleteClone(t)
  \/ DestroyAlgorithm

SpecBuffers == InitBuffers /\ [][NextBuffers]_vars

\* ----------------------------------------- one refiner for several seeds

\* The members of the refiner after the constructor (lines 76-83): the
\* pointers are null, S and R are empty, Lterm = oldLterm = 0, k = -1 and
\* _directed is false.  The fields flag_continue, alpha, beta and t0 stand
\* for the locals of IPFPalgorithm.
ConstructedMembers ==
  [directed |-> FALSE, C |-> <<>>, Xk |-> <<>>, XkD |-> <<>>, bkp1 |-> <<>>,
   Lterm |-> RZero, oldLterm |-> RZero, S |-> <<>>, R |-> <<>>, k |-> -1,
   flag_continue |-> TRUE, alpha |-> RZero, beta |-> RZero, t0 |-> RZero,
   branch |-> "none"]

\* The initialisation of IPFPalgorithm without S.clear() of line 323.
IPFPStartOnKeepsS(old, cf, g1, g2, Xk) ==
  LET n == Size(g1)
      m == Size(g2)
      directed == isDirected(g1) /\ isDirected(g2)
      C == NodeCostMatrix(cf, g1, g2)
      XkD == QuadraticTermOfMatrix(cf, g1, g2, Xk, directed)
      Lterm == linearCostOfMatrix(C, Xk, n + 1, m + 1)
  IN  [old EXCEPT !.directed = directed, !.C = C, !.Xk = Xk, !.XkD = XkD,
                  !.Lterm = Lterm,
                  !.S = Append(old.S, RAdd(linearCostOfMatrix(XkD, Xk, n + 1, m + 1), Lterm)),
                  !.R = <<>>, !.k = 0, !.flag_continue = TRUE, !.branch = "none"]

\* The members after the initialisation of IPFPalgorithm (lines 317-355)
\* on a refiner whose members are old, Xk holding the matrix to start from:
\* what the lines assign is set, every other member keeps its value.
IPFPStartOn(old, cf, g1, g2, Xk) ==
  LET n == Size(g1)
      m == Size(g2)
      directed == isDirected(g1) /\ isDirected(g2)
      C == NodeCostMatrix(cf, g1, g2)
      XkD == QuadraticTermOfMatrix(cf, g1, g2, Xk, directed)
      Lterm == linearCostOfMatrix(C, Xk, n + 1, m + 1)
  IN  [old EXCEPT !.directed = directed, !.C = C, !.Xk = Xk, !.XkD = XkD,
                  !.Lterm = Lterm,
                  !.S = <<RAdd(linearCostOfMatrix(XkD, Xk, n + 1, m + 1), Lterm)>>,
                  !.R = <<>>, !.k = 0, !.flag_continue = TRUE, !.branch = "none"]

\* A deterministic LSAPE solver: of the solutions of hungarianLSAPE it
\* returns the first or the last one in the order of G1_to_G2 read as a
\* number of base m + 1.
Solve(solver, C, n, m) ==
  LET all == hungarianLSAPE(C, n, m)
      key(p) == SumOver(0..(n - 1), [i \in 0..(n - 1) |-> p[1][i] * (m + 1) ^ i])
  IN  CHOOSE p \in all :
        \A q \in all : IF solver = "first" THEN key(p) <= key(q) ELSE key(p) >= key(q)

\* The loop of IPFPalgorithm (line 358) with the solver solver: the
\* members when it ends.
RECURSIVE IPFPRun(_, _, _, _, _, _)
IPFPRun(cf, g1, g2, st, maxIter, solver) ==
  IF ~LoopGuard(st, maxIter) THEN st
  ELSE LET linearSubProblem == IPFPGradient(cf, g1, g2, st)
           b == Solve(solver, linearSubProblem, Size(g1), Size(g2))
       IN  IPFPRun(cf, g1, g2,
                   IPFPIteration(cf, g1, g2, st, linearSubProblem, b[1], b[2]),
                   maxIter, solver)

\* getBetterMapping(g1, g2, G1_to_G2, G2_to_G1) on a refiner whose members
\* are old: the mapping it writes and the members it leaves, the buffers
\* deleted and their pointers null (lines 446-450 and 307).
getBetterMappingOn(old, cf, g1, g2, G1_to_G2, G2_to_G1, maxIter, solver) ==
  LET n == Size(g1)
      m == Size(g2)
      st == IPFPRun(cf, g1, g2,
                    IPFPStartOn(old, cf, g1, g2,
                                mappingsToMatrix(G1_to_G2, G2_to_G1, n, m)),
                    maxIter, solver)
  IN  [result |-> Solve(solver, OnesMinus(st.Xk), n, m),
       members |-> [st EXCEPT !.C = <<>>, !.XkD = <<>>, !.bkp1 = <<>>, !.Xk = <<>>]]

\* The sequential loop of getBestMappingFromSet on two seeds: arg holds the
\* seeds, decoded, and the solver; ipfp the members of the one refiner.
InitReuse ==
  /\ input \in {[g1 |-> p[1], g2 |-> p[2], cf |-> cf, k |-> 2, maxIter |-> MaxIterBound,
                  entry |-> "sequential"] :
                   p \in {<<Edge01, Edge00>>, <<Arc, Arc>>, <<Arc, Edge00>>},
                   cf \in {UnitCosts, CheapEdges}}
  /\ pc = "getBestMappingFromSet"
  /\ bipartite = <<>>
  /\ mappings = <<>>
  /\ it = 0
  /\ refined = <<>>
  /\ ncost = 0
  /\ arrayCosts = <<>>
  /\ tpc = <<>>
  /\ cost = -Unit
  /\ result = <<>>
  /\ ipfp = ConstructedMembers
  /\ heap = <<>>
  /\ arg \in [seeds : Mappings(N1, N2) \X Mappings(N1, N2), solver : {"first", "last"}]
  /\ val = <<>>

\* One iteration of the sequential loop (lines 209-243): getBetterMapping
\* on algorithm itself (line 239).  val receives the mapping it writes and,
\* next to it, the mapping a clone of the unused refiner writes for the
\* seed (line 237).
ReuseCall ==
  /\ pc = "getBestMappingFromSet"
  /\ it < Len(arg.seeds)
  /\ LET seed == arg.seeds[it + 1]
         own == getBetterMappingOn(ipfp, input.cf, input.g1, input.g2,
                                   seed[1], seed[2], input.maxIter, arg.solver)
         clone == getBetterMappingOn(ConstructedMembers, input.cf, input.g1, input.g2,
                                     seed[1], seed[2], input.maxIter, arg.solver)
     IN  /\ ipfp' = own.members
         /\ val' = Append(val, [own |-> own.result, clone |-> clone.result])
  /\ it' = it + 1
  /\ pc' = IF it' = Len(arg.seeds) THEN "done" ELSE pc
  /\ UNCHANGED <<arg, heap, input, bipartite, mappings, refined, ncost, arrayCosts, tpc,
                 cost, result>>

SpecReuse == InitReuse /\ [][ReuseCall]_vars

\* ------------------------------ the cost matrix of the bipartite method

\* The most BipartiteGraphEditDistance objects alive or destroyed in a run,
\* and the most operations on them.
MaxObjects == 3
MaxOps == 4

\* One object has been constructed: its member C is null (lines 49-57).
InitCostMatrixBuffers ==
  /\ input \in {[g1 |-> Edge01, g2 |-> Edge00, cf |-> UnitCosts, k |-> 1,
                  maxIter |-> MaxIterBound, entry |-> "BipartiteGraphEditDistance"]}
  /\ pc = "BipartiteGraphEditDistance"
  /\ bipartite = <<>>
  /\ mappings = <<>>
  /\ it = 0
  /\ refined = <<>>
  /\ ncost = 0
  /\ arrayCosts = <<>>
  /\ tpc = <<>>
  /\ cost = -Unit
  /\ result = <<>>
  /\ ipfp = <<>>
  /\ heap = [blocks |-> <<>>, C |-> <<NoBuffer>>, live |-> {1}, ops |-> 0]
  /\ arg = <<>>
  /\ val = <<>>

\* getOptimalMapping on object x (lines 89-99): delete [] this->C (92),
\* computeCostMatrix with its own delete [] C (189) and C = new (193), then
\* u and v, allocated (95-96) and deleted (98-99).
CallGetOptimalMapping(x) ==
  LET b == Len(heap.blocks)
  IN  /\ pc = "BipartiteGraphEditDistance"
      /\ x \in heap.live
      /\ heap.ops < MaxOps
      /\ heap' = [heap EXCEPT
                    !.blocks = Delete(New(Delete(@, <<heap.C[x], heap.C[x]>>), x, 3),
                                      <<b + 2, b + 3>>),
                    !.C[x] = b + 1,
                    !.ops = @ + 1]
      /\ BufferFrame

\* clone() of object x (lines 74-77): the copy constructor copies the
\* pointer C.
CloneBipartite(x) ==
  /\ pc = "BipartiteGraphEditDistance"
  /\ x \in heap.live
  /\ heap.ops < MaxOps
  /\ Len(heap.C) < MaxObjects
  /\ heap' = [heap EXCEPT !.C = Append(@, heap.C[x]),
                          !.live = @ \cup {Len(heap.C) + 1},
                          !.ops = @ + 1]
  /\ BufferFrame

\* The destructor of object x (lines 70-72).
DestroyBipartite(x) ==
  /\ pc = "BipartiteGraphEditDistance"
  /\ x \in heap.live
  /\ heap.ops < MaxOps
  /\ heap' = [heap EXCEPT !.blocks = Delete(@, <<heap.C[x]>>),
                          !.live = @ \ {x},
                          !.ops = @ + 1]
  /\ BufferFrame

NextCostMatrixBuffers ==
  \/ \E x \in 1..MaxObjects : CallGetOptimalMapping(x)
  \/ \E x \in 1..MaxObjects : CloneBipartite(x)
  \/ \E x \in 1..MaxObjects : DestroyBipartite(x)

SpecCostMatrixBuffers == InitCostMatrixBuffers /\ [][NextCostMatrixBuffers]_vars

\* ------------------------------------------------- functions on their own

\* The state of a specification that reads one function: everything but
\* pc, arg and val is as in Init.
Idle ==
  /\ input \in {[g1 |-> x.g1, g2 |-> x.g2, cf |-> x.cf, k |-> x.k,
                  maxIter |-> x.maxIter, entry |-> "function"] : x \in Instances}
  /\ bipartite = <<>>
  /\ mappings = <<>>
  /\ it = 0
  /\ refined = <<>>
  /\ ncost = 0
  /\ arrayCosts = <<>>
  /\ tpc = <<>>
  /\ cost = -Unit
  /\ result = <<>>
  /\ ipfp = <<>>
  /\ heap = <<>>

IdleFrame == UNCHANGED <<input, bipartite, mappings, it, refined, ncost, arrayCosts, tpc,
                         cost, result, ipfp, heap>>

\* The sizes of the matrices a function is read for.
MaxDim == 2

\* The (n+1) x (m+1) LSAPE cost matrices with entries 0, 1.0 and 2.0, the
\* entry of the epsilon row and epsilon column being 0.
CostMatrices(n, m) ==
  {[c \in 0..((n + 1) * (m + 1) - 1) |-> IF c = sub2ind(n, m, n + 1) THEN 0 ELSE f[c]] :
     f \in [0..((n + 1) * (m + 1) - 1) -> {0, Unit, 2 * Unit}]}

\* computeCostMatrixLSAP(C, n, m) is read for the pipeline's own matrices
\* and for every matrix of CostMatrices.
InitLSAP ==
  /\ Idle
  /\ pc = "computeCostMatrixLSAP"
  /\ arg \in {<<computeCostMatrix(input.cf, input.g1, input.g2), N1, N2>>}
            \cup UNION {{<<C, n, 1>> : C \in CostMatrices(n, 1)} : n \in 0..MaxDim}
            \cup UNION {{<<C, 1, m>> : C \in CostMatrices(1, m)} : m \in 0..MaxDim}
  /\ val = <<>>

ReadCostMatrixLSAP ==
  /\ pc = "computeCostMatrixLSAP"
  /\ val' = computeCostMatrixLSAP(arg[1], arg[2], arg[3])
  /\ pc' = "done"
  /\ UNCHANGED arg
  /\ IdleFrame

SpecLSAP == InitLSAP /\ [][ReadCostMatrixLSAP]_vars

\* The permutations of 0..N-1: the lists of mappings a caller may hand to
\* getBestMappingFromSet and getBetterMappingsFromSet hold any of them.
AllPermutations(N) == PerfectMatchings((0..(N - 1)) \X (0..(N - 1)), N)

\* The decoding of lsapMapping is read for every permutation of n + m
\* elements, n and m up to MaxDim.
InitDecode ==
  /\ Idle
  /\ pc = "decode"
  /\ arg \in UNION {{<<rho, nm[1], nm[2]>> : rho \in AllPermutations(nm[1] + nm[2])} :
                      nm \in (0..MaxDim) \X (0..MaxDim)}
  /\ val = <<>>

ReadDecode ==
  /\ pc = "decode"
  /\ val' = <<DecodeFwd(arg[1], arg[2], arg[3]), DecodeRev(arg[1], arg[2], arg[3])>>
  /\ pc' = "done"
  /\ UNCHANGED arg
  /\ IdleFrame

SpecDecode == InitDecode /\ [][ReadDecode]_vars

\* The graphs computeCostMatrix is read for, in every ordered pair.
Graphs ==
  {Arc, ArcToLabelled, DirectedPath, Cycle, Edge01, Edge00, Triangle, Path, Single, Empty}

\* computeCostMatrix(g1, g2) is read for every pair of Graphs and three
\* cost callbacks.
InitCostMatrix ==
  /\ input \in {[g1 |-> g1, g2 |-> g2, cf |-> cf, k |-> 1, maxIter |-> MaxIterBound,
                  entry |-> "function"] :
                   g1 \in Graphs, g2 \in Graphs, cf \in {UnitCosts, HalfCosts, CheapEdges}}
  /\ pc = "computeCostMatrix"
  /\ bipartite = <<>>
  /\ mappings = <<>>
  /\ it = 0
  /\ refined = <<>>
  /\ ncost = 0
  /\ arrayCosts = <<>>
  /\ tpc = <<>>
  /\ cost = -Unit
  /\ result = <<>>
  /\ ipfp = <<>>
  /\ heap = <<>>
  /\ arg = <<>>
  /\ val = <<>>

ReadCostMatrix ==
  /\ pc = "computeCostMatrix"
  /\ val' = computeCostMatrix(input.cf, input.g1, input.g2)
  /\ pc' = "done"
  /\ UNCHANGED arg
  /\ IdleFrame

SpecCostMatrix == InitCostMatrix /\ [][ReadCostMatrix]_vars

\* The construction of rhoperm (lines 174-196) is read for every consistent
\* solution (G1_to_G2, G2_to_G1) of sizes n and m up to MaxDim + 1.
InitRhoperm ==
  /\ Idle
  /\ pc = "rhoperm"
  /\ arg \in UNION {{<<p[1], p[2], nm[1], nm[2]>> : p \in Mappings(nm[1], nm[2])} :
                      nm \in (0..(MaxDim + 1)) \X (0..(MaxDim + 1))}
  /\ val = <<>>

ReadRhoperm ==
  /\ pc = "rhoperm"
  /\ val' = RhopermState(arg[1], arg[2], arg[3], arg[4])
  /\ pc' = "done"
  /\ UNCHANGED arg
  /\ IdleFrame

SpecRhoperm == InitRhoperm /\ [][ReadRhoperm]_vars

\* The duals hungarianLSAPE may return with the solution (fwd, rev) of the
\* integer matrix C under the contract of the solver alone: u[i] + v[j] <=
\* C[i,j] in every cell of the (n+1) x (m+1) matrix, with equality on the
\* cells of the solution, so that the sum of the duals is the cost of the
\* solution.  The duals of the epsilon row and column are not fixed.
LSAPEContractDuals(C, n, m, fwd, rev) ==
  LET cell(i, j) == C[sub2ind(i, j, n + 1)]
      range == {-Unit, 0, Unit, 2 * Unit}
  IN  {d \in [0..n -> range] \X [0..m -> range] :
         /\ \A i \in 0..n, j \in 0..m : d[1][i] + d[2][j] <= cell(i, j)
         /\ \A i \in 0..(n - 1) : d[1][i] + d[2][fwd[i]] = cell(i, fwd[i])
         /\ \A j \in 0..(m - 1) : rev[j] = n => d[1][n] + d[2][j] = cell(n, j)
         /\ SumOver(0..n, d[1]) + SumOver(0..m, d[2])
              = LSAPEObjective(ToRat(C), fwd, rev, n, m)[1]}

\* The lifting of getKOptimalMappings (lines 165-204) is read for the
\* matrices of CostMatrices of one and two nodes, every solution of the
\* solver and every pair of duals it may return with it.
InitLiftedDuals ==
  /\ Idle
  /\ pc = "lifting"
  /\ arg \in UNION {UNION {UNION {
              {[C |-> C, n |-> nm[1], m |-> nm[2], G1_to_G2 |-> p[1], G2_to_G1 |-> p[2],
                u |-> d[1], v |-> d[2]] :
                 d \in LSAPEContractDuals(C, nm[1], nm[2], p[1], p[2])} :
              p \in hungarianLSAPE(ToRat(C), nm[1], nm[2])} :
              C \in CostMatrices(nm[1], nm[2])} :
              nm \in {<<1, 1>>, <<1, 2>>, <<2, 1>>}}
  /\ val = <<>>

ReadLiftedDuals ==
  /\ pc = "lifting"
  /\ val' = [Clsap |-> computeCostMatrixLSAP(arg.C, arg.n, arg.m),
             rhoperm |-> Rhoperm(arg.G1_to_G2, arg.G2_to_G1, arg.n, arg.m),
             lu |-> LiftedU(arg.u, arg.n, arg.m),
             lv |-> LiftedV(arg.v, arg.n, arg.m)]
  /\ pc' = "done"
  /\ UNCHANGED arg
  /\ IdleFrame

SpecLiftedDuals == InitLiftedDuals /\ [][ReadLiftedDuals]_vars

\* The end of an iteration is read for two nodes, one of each graph: alpha
\* and beta on and around the thresholds of lines 393 and 416, Xk and the
\* solution of the iteration among the mappings, C a matrix of node costs.
BranchValues ==
  LET step == InUnits(BetaStep)
      thr == InUnits(BetaReplace)
  IN  [alpha |-> {RZero, RNeg(thr), RMul(RInt(-2), thr),
                  RMul(RInt(-4), thr), RInt(-Unit)},
       beta |-> {RZero, step, RMul(RInt(2), step), thr, RMul(RInt(2), thr),
                 RMul(RInt(4), thr), RMul(RInt(8), thr)}]

InitBranch ==
  /\ Idle
  /\ pc = "branch"
  /\ arg \in [alpha : BranchValues.alpha, beta : BranchValues.beta,
              Sk : {RInt(2 * Unit)}, Snew : {RInt(Unit)},
              Xk : {mappingsToMatrix(p[1], p[2], 1, 1) : p \in Mappings(1, 1)},
              b : Mappings(1, 1),
              C : {NodeCostMatrix(cf, Single, Edge01) : cf \in {UnitCosts, HalfCosts}}]
  /\ val = <<>>

ReadBranch ==
  /\ pc = "branch"
  /\ val' = BranchUpdate(arg.alpha, arg.beta, arg.Sk, arg.Snew, arg.Xk,
                         mappingsToMatrix(arg.b[1], arg.b[2], 1, 1), arg.C,
                         linearCostOfMapping(arg.C, arg.b[1], arg.b[2], 1, 1), 1, 1)
  /\ pc' = "done"
  /\ UNCHANGED arg
  /\ IdleFrame

SpecBranch == InitBranch /\ [][ReadBranch]_vars

\* The matrices QuadraticTerm is read for: the matrix of every mapping and
\* the middle of it and of the matrix of the mapping that deletes and
\* inserts every node, an iterate of a line search of step 1/2.
QuadraticTermArguments(n, m) ==
  LET all == {mappingsToMatrix(p[1], p[2], n, m) : p \in Mappings(n, m)}
      edits == mappingsToMatrix([i \in 0..(n - 1) |-> m], [j \in 0..(m - 1) |-> n], n, m)
  IN  all \cup {[c \in DOMAIN X |-> RMul(<<1, 2>>, RAdd(X[c], edits[c]))] : X \in all}

\* QuadraticTerm(g1, g2, Xk, XkD) is read as IPFPalgorithm calls it (lines
\* 317 and 333): _directed is set from the two graphs.
InitQuadraticTerm ==
  /\ input \in {[g1 |-> p[1], g2 |-> p[2], cf |-> cf, k |-> 1, maxIter |-> MaxIterBound,
                  entry |-> "function"] :
                   p \in {<<Arc, Arc>>, <<ArcToLabelled, Arc>>, <<DirectedPath, Cycle>>,
                           <<Edge01, Edge00>>, <<Triangle, Path>>, <<Path, Edge01>>,
                           <<Single, Triangle>>, <<Empty, Edge00>>, <<Arc, Edge00>>,
                           <<Path, DirectedPath>>},
                   cf \in {UnitCosts, CheapEdges}}
  /\ pc = "QuadraticTerm"
  /\ bipartite = <<>>
  /\ mappings = <<>>
  /\ it = 0
  /\ refined = <<>>
  /\ ncost = 0
  /\ arrayCosts = <<>>
  /\ tpc = <<>>
  /\ cost = -Unit
  /\ result = <<>>
  /\ ipfp = <<>>
  /\ heap = <<>>
  /\ arg \in QuadraticTermArguments(N1, N2)
  /\ val = <<>>

ReadQuadraticTerm ==
  /\ pc = "QuadraticTerm"
  /\ val' = QuadraticTermOfMatrix(input.cf, input.g1, input.g2, arg,
                                  isDirected(input.g1) /\ isDirected(input.g2))
  /\ pc' = "done"
  /\ UNCHANGED arg
  /\ IdleFrame

SpecQuadraticTerm == InitQuadraticTerm /\ [][ReadQuadraticTerm]_vars

\* ----------------------------------------------------------- properties

\* The driver getBestMappingFromSet has returned.
DriverDone == pc = "done" /\ input.entry \in {"sequential", "openmp"}

\* mappingCost of the mapping refined from seed t, and of the result.
RefinedCost(t) ==
  mappingCost(input.cf, input.g1, input.g2, refined[t][1], refined[t][2])
ResultCost == mappingCost(input.cf, input.g1, input.g2, result[1], result[2])

C2_ReturnsMinimum ==
  DriverDone => \A t \in 1..Len(mappings) : ResultCost <= RefinedCost(t)

\* The refined seeds of least cost.
TiedSeeds ==
  {t \in 1..Len(mappings) : \A s \in 1..Len(mappings) : RefinedCost(t) <= RefinedCost(s)}

\* C3: when several refined seeds tie for the least cost, getBestMappingFromSet
\* returns the mapping of the tied seed of lowest index, whatever the order
\* in which the seeds were refined.
C3_LowestIndexOnTie ==
  (DriverDone /\ Cardinality(TiedSeeds) >= 2) =>
    result = refined[CHOOSE t \in TiedSeeds : \A s \in TiedSeeds : t <= s]

\* C4: in the OpenMP build the cost recorded for seed t, arrayCosts[t], is
\* the mappingCost of the mapping refined from seed t itself, for every
\* interleaving of the loop bodies.
C4_OwnCostRecorded ==
  \A t \in 1..Len(mappings) :
    (input.entry = "openmp" /\ tpc[t] = "stored") =>
      arrayCosts[t] = IntOfDouble(RefinedCost(t))

\* C5: the cost of the mapping the multistart pipeline returns is at most
\* the cost of the mapping of BipartiteGraphEditDistance::getOptimalMapping
\* on the same pair.
C5_NeverWorseThanBipartite ==
  DriverDone =>
    ResultCost <= GedFromMapping(input.cf, input.g1, input.g2,
                                 bipartite[1], bipartite[2])

\* C6: on a pair (g, g), the cost callback giving 0 on identical arguments,
\* the multistart pipeline returns a mapping of cost 0.
C6_SelfDistanceZero ==
  (DriverDone /\ input.g1 = input.g2) => ResultCost = 0

\* C7: the list getKOptimalMappings(g1, g2, C, K) returns holds at most K
\* mappings.
C7_AtMostK ==
  pc \notin {"start", "bipartite"} => Len(mappings) <= input.k

\* C8: the list getKOptimalMappings returns never holds the same perfect
\* matching twice, rhoperm at its front included.
C8_NoDuplicate ==
  \A a, b \in 1..Len(mappings) : a # b => mappings[a] # mappings[b]

\* The cost of the permutation rho in the lifted matrix of the input.
LiftedCost(rho) ==
  LET Clsap == computeCostMatrixLSAP(computeCostMatrix(input.cf, input.g1, input.g2),
                                     N1, N2)
  IN  SumOver(0..(N1 + N2 - 1),
              [x \in 0..(N1 + N2 - 1) |-> Clsap[sub2ind(x, rho[x], N1 + N2)]])

\* getKOptimalMappings has just returned: the caller holds the list and has
\* not started on its first seed.
SeedsReturned ==
  /\ pc = input.entry
  /\ it = 0
  /\ \A t \in 1..Len(mappings) : tpc[t] = "todo"

XkDArgument == IF ipfp.k = 0 THEN ipfp.Xk ELSE ipfp.bkp1

\* C10: the quadratic term is halved if and only if both graphs are
\* undirected: XkD is half the sum of the edge costs in every cell when
\* neither g1 nor g2 is directed, and the sum itself when one of them is.
C10_HalvedIffBothUndirected ==
  ipfp # <<>> =>
    LET sum == QuadraticTermOfMatrix(input.cf, input.g1, input.g2, XkDArgument, TRUE)
        bothUndirected == ~isDirected(input.g1) /\ ~isDirected(input.g2)
    IN  ipfp.XkD = [c \in DOMAIN sum |->
                      IF bothUndirected THEN RMul(sum[c], <<1, 2>>) ELSE sum[c]]

\* C11: a refinement call on a pair of mixed directedness (exactly one of
\* g1 and g2 directed) is rejected: the refiner computes nothing and no
\* mapping is written to G1_to_G2 and G2_to_G1.
C11_MixedDirectednessRejected ==
  (isDirected(input.g1) # isDirected(input.g2)) => (ipfp = <<>> /\ result = <<>>)

\* C12: when g1 or g2 has no node, getBetterMapping executes no iteration of
\* the loop of IPFPalgorithm and returns the mapping that sends every node
\* to epsilon.
C12_EmptyGraphSkipsIteration ==
  (N1 = 0 \/ N2 = 0) =>
    /\ ipfp # <<>> => ipfp.k = 0
    /\ pc = "done" => /\ \A i \in 0..(N1 - 1) : result[1][i] = N2
                      /\ \A j \in 0..(N2 - 1) : result[2][j] = N1

\* C13: the loop of IPFPalgorithm always terminates: the iteration count k
\* never exceeds maxIter, every iteration increases k by exactly 1, and
\* every call ends with a mapping written to G1_to_G2 and G2_to_G1, whether
\* the convergence test cleared flag_continue or k reached maxIter.
C13_LoopTerminates ==
  /\ [](ipfp # <<>> => ipfp.k <= input.maxIter)
  /\ [][RefinerIterate => ipfp'.k = ipfp.k + 1]_vars
  /\ <>(pc = "done" /\ result \in Mappings(N1, N2))

\* A call has returned a mapping after maxIter iterations, the convergence
\* test still asking for more.
C13_Witness ==
  /\ pc = "done"
  /\ ipfp.k = input.maxIter
  /\ ipfp.flag_continue
  /\ result \in Mappings(N1, N2)

\* C14: whenever an iteration of IPFPalgorithm has taken the line search
\* branch, the objective it stored satisfies
\* S[k+1] <= S[k] - alpha^2 / (4 * beta), beta being positive there:
\* alpha^2 <= 4 * beta * (S[k] - S[k+1]).
C14_LineSearchDecrease ==
  (ipfp # <<>> /\ ipfp.branch = "line_search") =>
    /\ RLt(RZero, ipfp.beta)
    /\ RLe(RMul(ipfp.alpha, ipfp.alpha),
           RMul(RMul(RInt(4), ipfp.beta),
                RSub(ipfp.S[ipfp.k], ipfp.S[ipfp.k + 1])))

\* An iteration has taken the line search branch with alpha # 0, so that
\* the stored objective has strictly decreased.
C14_Witness ==
  /\ ipfp # <<>>
  /\ ipfp.branch = "line_search"
  /\ ipfp.alpha # RZero
  /\ RLt(ipfp.S[ipfp.k + 1], ipfp.S[ipfp.k])

\* C15: for every consistent mapping of a pair of directed graphs or of a
\* pair of undirected graphs, the cost the refiner computes, getCost with
\* XkD the quadratic term of the mapping and Lterm its node linear term,
\* equals mappingCost of the mapping.
C15_GetCostIsMappingCost ==
  (pc = "done" /\ isDirected(input.g1) = isDirected(input.g2)) =>
    cost[1] = RInt(cost[2])

\* The two costs have been read for a mapping that substitutes an edge and
\* deletes or inserts another, in an undirected pair and in a directed one.
C15_Witness ==
  /\ pc = "done"
  /\ input.g1 \in {Triangle, DirectedPath}
  /\ \E i \in 0..(N1 - 1) : bipartite[1][i] = N2
  /\ \E i \in 0..(N1 - 1) : bipartite[1][i] < N2
  /\ cost[2] > 0

\* The buffers thread t has allocated.
BuffersOf(t) == {i \in DOMAIN heap.blocks : heap.blocks[i].owner = t}

\* C16: after every call of getBetterMapping has returned, every buffer the
\* call allocated has been released exactly once and the pointer members of
\* the refiner are null; no buffer is ever released twice, so that nothing
\* of a call is left to the next call or to the destructor.
C16_BuffersReleasedOnce ==
  heap # <<>> =>
    /\ \A i \in DOMAIN heap.blocks : heap.blocks[i].frees <= 1
    /\ \A t \in DOMAIN heap.th :
         heap.th[t].pc \in {"returned", "deleted"} =>
           /\ \A f \in Members : heap.obj[local_method(t)][f] = NoBuffer
           /\ \A i \in BuffersOf(t) : heap.blocks[i].frees = 1
    /\ pc = "destroyed" => \A i \in DOMAIN heap.blocks : heap.blocks[i].frees = 1

\* The refiner algorithm has been destroyed after two calls of
\* getBetterMapping on it, the second of more than one iteration.
C16_Witness ==
  /\ heap # <<>>
  /\ pc = "destroyed"
  /\ input.entry = "sequential"
  /\ heap.th[1].seed = 2
  /\ heap.th[1].k > 1
  /\ Len(heap.blocks) > 20

\* The cost of an assignment that deletes every node of g1 and inserts
\* every node of g2 in the LSAPE matrix C, an upper bound of the optimum.
AllEdits(C, n, m) ==
  SumOver(0..(n - 1), [i \in 0..(n - 1) |-> C[sub2ind(i, m, n + 1)]])
    + SumOver(0..(m - 1), [j \in 0..(m - 1) |-> C[sub2ind(n, j, n + 1)]])

\* C17: computeCostMatrixLSAP(C, n, m) builds the (n+m) x (n+m) matrix with
\* C_L[i,j] = C[i,j] for i < n and j < m, C_L[i,m+i] = C[i,m],
\* C_L[n+j,j] = C[n,j], C_L[x,y] = 0 for x >= n and y >= m, and in every
\* other cell a value no minimum-cost assignment can use: one above the cost
\* of the assignment that uses none of these cells.
C17_LiftedMatrix ==
  pc = "done" =>
    LET C == arg[1]
        n == arg[2]
        m == arg[3]
    IN  \A x, y \in 0..(n + m - 1) :
          LET c == val[sub2ind(x, y, n + m)]
          IN  IF x < n /\ y < m THEN c = C[sub2ind(x, y, n + 1)]
              ELSE IF x < n /\ y = m + x THEN c = C[sub2ind(x, m, n + 1)]
              ELSE IF x >= n /\ y < m /\ x = n + y THEN c = C[sub2ind(n, y, n + 1)]
              ELSE IF x >= n /\ y >= m THEN c = 0
              ELSE c > AllEdits(C, n, m)

\* C18: the decoding of a permutation rho of the n+m rows of the lifting
\* gives, for every i < n, fwd[i] = rho[i] if rho[i] < m and fwd[i] = m
\* (epsilon) otherwise, and for every j < m, rev[j] = i if some i < n has
\* rho[i] = j and rev[j] = n (epsilon) otherwise.
C18_Decoding ==
  pc = "done" =>
    LET rho == arg[1]
        n == arg[2]
        m == arg[3]
    IN  /\ \A i \in 0..(n - 1) :
             val[1][i] = IF rho[i] < m THEN rho[i] ELSE m
        /\ \A j \in 0..(m - 1) :
             IF \E i \in 0..(n - 1) : rho[i] = j
             THEN rho[val[2][j]] = j /\ val[2][j] < n
             ELSE val[2][j] = n

\* The nodes the edges of node i of g lead to.
Neighbours(g, i) == {j \in 0..(Size(g) - 1) : getEdge(g, i, j) # NoEdge}

\* The costs of the ways to edit the edges of node i of g1 into the edges
\* of node j of g2: each edge of i is substituted by an edge of j of its
\* own or deleted, and the edges of j left over are inserted.
StarEditCosts(cf, g1, g2, i, j) ==
  LET A == Neighbours(g1, i)
      B == Neighbours(g2, j)
      eps == Size(g2)
      ways == {f \in [A -> B \cup {eps}] :
                 \A a1, a2 \in A : (a1 # a2 /\ f[a1] # eps) => f[a1] # f[a2]}
  IN  {SumOver(A, [a \in A |->
                     IF f[a] = eps THEN EdgeDeletionCost(cf, getEdge(g1, i, a))
                     ELSE EdgeSubstitutionCost(cf, getEdge(g1, i, a),
                                               getEdge(g2, j, f[a]))])
       + SumOver({b \in B : \A a \in A : f[a] # b},
                 [b \in B |-> EdgeInsertionCost(cf, getEdge(g2, j, b))]) : f \in ways}

\* The sums of all the duals u and v that hungarianLSAPE may return for the
\* local matrix of node i of g1 and node j of g2.
LocalDualSums(cf, g1, g2, i, j) ==
  LET local_C == LocalEdgeMatrix(cf, g1, g2, i, j)
      n == Degree(g1, i)
      m == Degree(g2, j)
      ints == [c \in DOMAIN local_C |-> local_C[c][1]]
  IN  UNION {{SumOver(0..n, d[1]) + SumOver(0..m, d[2]) :
                d \in LSAPEDuals(ints, n, m, p[1], p[2])} :
               p \in hungarianLSAPE(local_C, n, m)}

\* C19: computeCostMatrix produces the star-augmented (n+1) x (m+1) matrix:
\* C[i,j] is NodeSub of the two nodes plus the least cost of editing the
\* incident edges of the one into those of the other, which is the sum of
\* the local duals; C[i,m] is NodeDel plus EdgeDel of the incident edges of
\* i; C[n,j] is NodeIns plus EdgeIns of the incident edges of j; C[n,m] = 0;
\* every entry is non-negative.
C19_StarAugmentedMatrix ==
  pc = "done" =>
    LET cf == input.cf
        g1 == input.g1
        g2 == input.g2
    IN  /\ \A i \in 0..(N1 - 1), j \in 0..(N2 - 1) :
             LET edges == val[sub2ind(i, j, N1 + 1)]
                            - NodeSubstitutionCost(cf, g1.lab[i], g2.lab[j])
             IN  /\ edges \in StarEditCosts(cf, g1, g2, i, j)
                 /\ \A c \in StarEditCosts(cf, g1, g2, i, j) : edges <= c
                 /\ LocalDualSums(cf, g1, g2, i, j) = {edges}
        /\ \A i \in 0..(N1 - 1) :
             val[sub2ind(i, N2, N1 + 1)]
               = NodeDeletionCost(cf, g1.lab[i])
                 + SumOver(Neighbours(g1, i),
                           [a \in Neighbours(g1, i) |->
                              EdgeDeletionCost(cf, getEdge(g1, i, a))])
        /\ \A j \in 0..(N2 - 1) :
             val[sub2ind(N1, j, N1 + 1)]
               = NodeInsertionCost(cf, g2.lab[j])
                 + SumOver(Neighbours(g2, j),
                           [b \in Neighbours(g2, j) |->
                              EdgeInsertionCost(cf, getEdge(g2, j, b))])
        /\ val[sub2ind(N1, N2, N1 + 1)] = 0
        /\ \A c \in DOMAIN val : val[c] >= 0

\* The matrix has been computed for two graphs with a pair of nodes of two
\* edges each, the one's edges not all substituted for nothing.
C19_Witness ==
  /\ pc = "done"
  /\ \E i \in 0..(N1 - 1), j \in 0..(N2 - 1) :
       /\ Degree(input.g1, i) = 2
       /\ Degree(input.g2, j) = 2
       /\ val[sub2ind(i, j, N1 + 1)]
            > NodeSubstitutionCost(input.cf, input.g1.lab[i], input.g2.lab[j])
       /\ val[sub2ind(i, N2, N1 + 1)] > NodeDeletionCost(input.cf, input.g1.lab[i])

\* What an iteration leaves when it replaces Xk by bkp1: X_{k+1} is the
\* binary matrix b_{k+1} and L_{k+1} = <C, b_{k+1}>.
Replaced ==
  LET bkp1 == mappingsToMatrix(arg.b[1], arg.b[2], 1, 1)
  IN  /\ val.Xk = bkp1
      /\ val.Lterm = linearCostOfMatrix(arg.C, bkp1, 2, 2)

\* What an iteration leaves after a line search of step t0:
\* X_{k+1} = X_k + t0 * (b_{k+1} - X_k), S_{k+1} = S_k - alpha^2 / (4 * beta)
\* and L_{k+1} = <C, X_{k+1}>.
Searched(t0) ==
  LET bkp1 == mappingsToMatrix(arg.b[1], arg.b[2], 1, 1)
  IN  /\ val.Xk = [c \in DOMAIN arg.Xk |->
                     RAdd(arg.Xk[c], RMul(t0, RSub(bkp1[c], arg.Xk[c])))]
      /\ val.Snext = RSub(arg.Sk, RDiv(RMul(arg.alpha, arg.alpha),
                                       RMul(RInt(4), arg.beta)))
      /\ val.Lterm = linearCostOfMatrix(arg.C, val.Xk, 2, 2)

\* -alpha / (2 * beta).
Quotient == RDiv(RNeg(arg.alpha), RMul(RInt(2), arg.beta))

RowSum(X, i, n, m) == RSumOver(0..m, [j \in 0..m |-> X[sub2ind(i, j, n + 1)]])
ColumnSum(X, j, n, m) == RSumOver(0..n, [i \in 0..n |-> X[sub2ind(i, j, n + 1)]])

\* C21: Xk stays doubly (sub)stochastic throughout a run of IPFPalgorithm
\* started from a consistent mapping: at every iteration every entry of Xk
\* lies in [0, 1], every row i < n and every column j < m sums to 1, and the
\* step t0 of a line search lies in [0, 1).
C21_XkDoublyStochastic ==
  ipfp # <<>> =>
    /\ \A c \in DOMAIN ipfp.Xk : RLe(RZero, ipfp.Xk[c]) /\ RLe(ipfp.Xk[c], ROne)
    /\ \A i \in 0..(N1 - 1) : RowSum(ipfp.Xk, i, N1, N2) = ROne
    /\ \A j \in 0..(N2 - 1) : ColumnSum(ipfp.Xk, j, N1, N2) = ROne
    /\ ipfp.branch = "line_search" => RLe(RZero, ipfp.t0) /\ RLt(ipfp.t0, ROne)

\* An iteration has done a line search that left Xk with an entry strictly
\* between 0 and 1.
C21_Witness ==
  /\ ipfp # <<>>
  /\ ipfp.branch = "line_search"
  /\ \E c \in DOMAIN ipfp.Xk : RLt(RZero, ipfp.Xk[c]) /\ RLt(ipfp.Xk[c], ROne)

\* edgecost((i, j), (k, l)): EdgeSub when g1 has the edge (i, j) and g2 the
\* edge (k, l), EdgeDel when only g1 has its edge, EdgeIns when only g2 has
\* its edge and 0 otherwise; an epsilon index is no edge on its side, and
\* the pairs with i = j < n or k = l < m cost nothing.
EdgeCostOfPair(i, j, k, l) ==
  LET in1 == i < N1 /\ j < N1 /\ <<i, j>> \in DOMAIN input.g1.e
      in2 == k < N2 /\ l < N2 /\ <<k, l>> \in DOMAIN input.g2.e
  IN  IF (i = j /\ i < N1) \/ (k = l /\ k < N2) THEN 0
      ELSE IF in1 /\ in2
        THEN EdgeSubstitutionCost(input.cf, input.g1.e[<<i, j>>], input.g2.e[<<k, l>>])
      ELSE IF in1 THEN EdgeDeletionCost(input.cf, input.g1.e[<<i, j>>])
      ELSE IF in2 THEN EdgeInsertionCost(input.cf, input.g2.e[<<k, l>>])
      ELSE 0

\* The sum over the cells (i, k) of X of edgecost((i, j), (k, l)) * X[i, k].
EdgeCostSum(X, j, l) ==
  RSumOver((0..N1) \X (0..N2),
           [c \in (0..N1) \X (0..N2) |->
              RMul(RInt(EdgeCostOfPair(c[1], j, c[2], l)), X[sub2ind(c[1], c[2], N1 + 1)])])

C23_CostMatrixReleasedOnce ==
  (heap # <<>> /\ pc = "BipartiteGraphEditDistance") =>
    \A i \in DOMAIN heap.blocks : heap.blocks[i].frees <= 1

\* C24: for every consistent LSAPE solution (G1_to_G2, G2_to_G1), rhoperm is
\* a bijection on 0..n+m-1 that uses only cells of the lifting that are not
\* sentinels (a substitution cell, a cell of one of the two epsilon
\* diagonals or a cell of the zero block), and the search for an unassigned
\* epsilon never indexes epsAssign at n or beyond.
C24_RhopermBijection ==
  pc = "done" =>
    LET n == arg[3]
        m == arg[4]
        rho == val.rhoperm
    IN  /\ rho \in [0..(n + m - 1) -> 0..(n + m - 1)]
        /\ \A x, y \in 0..(n + m - 1) : x # y => rho[x] # rho[y]
        /\ \A x \in 0..(n + m - 1) :
             \/ x < n /\ rho[x] < m
             \/ x < n /\ rho[x] = m + x
             \/ x >= n /\ rho[x] < m /\ x = n + rho[x]
             \/ x >= n /\ rho[x] >= m
        /\ ~val.overrun

\* rhoperm has been built for a solution that substitutes a node, deletes a
\* node and inserts a node, an epsilon row being sent to the zero block.
C24_Witness ==
  /\ pc = "done"
  /\ \E i \in 0..(arg[3] - 1) : arg[1][i] < arg[4]
  /\ \E i \in 0..(arg[3] - 1) : arg[1][i] = arg[4]
  /\ \E j \in 0..(arg[4] - 1) : arg[2][j] = arg[3]
  /\ \E j \in 0..(arg[4] - 1) : val.rhoperm[arg[3] + j] >= arg[4]

\* C25: the lifted duals lu (u[0..n-1] followed by m zeros) and lv
\* (v[0..m-1] followed by n zeros) are tight on the lifted matching:
\* lu[x] + lv[rhoperm[x]] = C_L[x, rhoperm[x]] for every row x < n+m, for
\* every (rho, u, v) the LSAPE solver may return under its contract.
C25_LiftedDualsTight ==
  pc = "done" =>
    \A x \in 0..(arg.n + arg.m - 1) :
      val.lu[x] + val.lv[val.rhoperm[x]]
        = val.Clsap[sub2ind(x, val.rhoperm[x], arg.n + arg.m)]

\* C26: one refiner used for several seeds one after the other gives, for
\* each seed, the mapping a fresh clone of the refiner gives for it: nothing
\* an earlier call of getBetterMapping left in S, R, k, Lterm, oldLterm,
\* XkD or another member changes the result of a later call, the LSAPE
\* solver being deterministic.
C26_ReuseEqualsClone ==
  (ipfp # <<>> /\ pc \in {"getBestMappingFromSet", "done"}) =>
    \A t \in 1..Len(val) : val[t].own = val[t].clone

\* The refiner has refined its second seed after a first call that ran a
\* line search and left S, k, Lterm and oldLterm other than constructed.
C26_Witness ==
  /\ pc = "done"
  /\ Len(val) = 2
  /\ arg.seeds[1] # arg.seeds[2]
  /\ ipfp.k >= 2
  /\ Len(ipfp.S) >= 3
  /\ ipfp.oldLterm # RZero
  /\ val[2].own # arg.seeds[2]

\* C27: when Xk at the end of the loop of IPFPalgorithm is binary and is
\* the matrix of a consistent mapping M, the projection of getBetterMapping
\* (the LSAPE of 1 - Xk) returns exactly M: the projection of
\* mappingsToMatrix(M) has M as its only solution, for every consistent M.
C27_ProjectionReturnsMapping ==
  (pc = "done" /\ ipfp # <<>>) =>
    \A M \in Mappings(N1, N2) :
      /\ ipfp.Xk = mappingsToMatrix(M[1], M[2], N1, N2) => result = M
      /\ hungarianLSAPE(OnesMinus(mappingsToMatrix(M[1], M[2], N1, N2)), N1, N2) = {M}

\* A call has iterated and has returned the mapping of its binary Xk,
\* another one than the mapping it was given, substituting a node.
C27_Witness ==
  /\ pc = "done"
  /\ ipfp # <<>>
  /\ ipfp.k >= 1
  /\ ipfp.Xk = mappingsToMatrix(result[1], result[2], N1, N2)
  /\ result # bipartite
  /\ \E i \in 0..(N1 - 1) : result[1][i] < N2

====
